---------------------------- MODULE Spec2Model ----------------------------
(***************************************************************************)
(* A model of spider.py, the crawler / warehouse builder of the StatsWales *)
(* data grabber: the schema migration manager (database_version,           *)
(* upgrade_database, purge_database), the generic row procedures (INSERT,  *)
(* CHECK_ROW and the converters), the cross-language dataset-dimension     *)
(* loader (load_odata_dataset_dimensions over load_json_pages) and the     *)
(* fetch cache (fetch_uri).                                                *)
(*                                                                         *)
(* Each subsystem has its own specification (SpecMig, SpecRow, SpecDim,    *)
(* SpecFetch) over its own variables; the variables of the other           *)
(* subsystems stay at their initial values.                                *)
(***************************************************************************)
EXTENDS Integers, Sequences, FiniteSets, TLC

VARIABLES
    \* ---- the sqlite connection (shared by every subsystem)
    savepoints,     \* stack of open SAVEPOINT names; non-empty = db.in_transaction
    foreign_keys,   \* PRAGMA foreign_keys of the connection
    \* ---- schema migration manager
    objects,        \* indices of the db_schema steps whose table/view/index exists
    meta,           \* db_meta row 'schema_version': <<>> (no row) or <<value>>
    upg,            \* the running upgrade_database call: pc, old_version, k, ...
    applied,        \* history: steps applied to the store since it was created or purged
    before,         \* history: the store, and the previous call, when this upgrade_database call began
    purged,             \* history: the purge_database call, if it was the last operation, and the store it found
    \* ---- row procedures and the dataset-dimension tables
    dimTable,       \* rows of odata_dataset_dimension
    infoTable,      \* rows of odata_dataset_dimension_info
    counters,       \* the n of each make_autoincrement closure, by name
    rowCall,        \* history: the last row procedure call and what it did
    \* ---- load_odata_dataset_dimensions
    extras,         \* the rows of extra.odata_dataset_dimensions.json
    ld,             \* the running loader: pass, current page, procedure and item
    seen,           \* history: the feed rows each pass has read, in document order
    assigned,       \* history: each row procedure application and the index it bound
    \* ---- fetch_uri and the fetch cache
    cacheRows,      \* rows of spider_uri_cache
    tmpFiles,       \* the files of tmp/: name and content
    ugcFiles,       \* the files of ugc/: name and content
    durableRows,    \* the rows of spider_uri_cache as last committed
    clock,          \* time.time(), in ticks
    fx,             \* the running fetch_uri call: pc, uri, now, retry_interval, ...
    lastCall,       \* history: the fetch_uri call that ended last, and what the
                    \* call before it returned if that was for the same URI
    pj,             \* the running load_json_pages call: feed, page, loop position
    applications,   \* history: the row procedure applications of that call, in order
    la,             \* the running load_all call: the loader it is in, and where
    loaded,         \* rows each loader has written, as the connection sees them
    committed,      \* rows of each loader that are committed in the database file
    calls,          \* history: the loaders started and completed, in order
    docs,           \* the type-schema documents: of the English service, of the
                    \* Welsh service, and ugc/extra.dataset_property_dimension.xml
    propRows,       \* the rows of the three dataset_property_* tables
    lp              \* the running load_dataset_properties call

varsConn == <<savepoints, foreign_keys>>
varsMig  == <<objects, meta, upg, applied, before, purged>>
varsTab  == <<dimTable, infoTable, counters>>
varsRow  == <<rowCall>>
varsDim  == <<extras, ld, seen, assigned>>
varsFetch == <<cacheRows, tmpFiles, ugcFiles, durableRows, clock, fx, lastCall>>
varsPages == <<pj, applications>>
varsLoad == <<la, loaded, committed, calls>>
varsProps == <<docs, propRows, lp>>
vars     == <<savepoints, foreign_keys, objects, meta, upg, applied, before, purged,
             dimTable, infoTable, counters, rowCall, extras, ld, seen, assigned,
             cacheRows, tmpFiles, ugcFiles, durableRows, clock, fx, lastCall,
             pj, applications, la, loaded, committed, calls, docs, propRows, lp>>

\* Values bound to and stored in the database, tagged with their sqlite
\* storage class: NULL (Python None), an integer, or a text (a sequence of
\* characters).
NULL == <<"null">>
Integer(n) == <<"integer", n>>
Str(chars) == <<"text", chars>>
EmptyString == Str(<<>>)

(***************************************************************************)
(* Sequence helpers.                                                       *)
(***************************************************************************)
Range(s) == {s[i] : i \in 1..Len(s)}

\* The sequence lo, lo+1, ..., hi-1 (empty when lo >= hi).
Interval(lo, hi) == [i \in 1..(IF hi > lo THEN hi - lo ELSE 0) |-> lo + i - 1]

(***************************************************************************)
(* The sqlite connection: nested transactions by SAVEPOINT / RELEASE.      *)
(* initialise() sets isolation_level = None, so the connection never opens *)
(* a transaction by itself: the outermost SAVEPOINT opens one and its      *)
(* RELEASE commits it.                                                     *)
(***************************************************************************)
in_transaction(sp) == Len(sp) > 0

Savepoint(sp, name) == Append(sp, name)

\* RELEASE name: drops the most recent savepoint of that name and every
\* savepoint opened after it.
LastIndexOf(sp, name) ==
    LET S == {i \in 1..Len(sp) : sp[i] = name}
    IN  CHOOSE i \in S : \A j \in S : j <= i

Release(sp, name) == SubSeq(sp, 1, LastIndexOf(sp, name) - 1)

\* upgrade_database before its first call, and the entry record of no call.
UpgIdle == [pc |-> "idle", old_version |-> 0, todo |-> <<>>, executed |-> <<>>,
            metaWrites |-> 0, opened |-> 0]

\* purge_database not the last operation.
NoPurge == [outcome |-> "none", objects |-> {}, savepoints |-> <<>>, foreign_keys |-> TRUE,
            cacheRows |-> {}, dimTable |-> {}, infoTable |-> {}]

NoEntry == [objects |-> {}, meta |-> <<>>, savepoints |-> <<>>,
            applied |-> 0, prev |-> UpgIdle, purge |-> NoPurge]

\* The connection as initialise() sets it up, and no call made.
MigIdle ==
    /\ foreign_keys = TRUE
    /\ upg = UpgIdle
    /\ before = NoEntry
    /\ purged = NoPurge

(***************************************************************************)
(* db_schema.                                                             *)
(***************************************************************************)
\* len(db_schema): the number of migration steps this program knows.
NumSteps == 29

\* db_schema[0] creates db_meta; db_schema[1] creates spider_uri_cache with
\* IF NOT EXISTS; every other step is a plain CREATE TABLE / VIEW / INDEX.
MetaStep  == 0
CacheStep == 1

\* db_schema[9] creates odata_dataset_dimension and db_schema[11] creates
\* odata_dataset_dimension_info, the two tables whose rows the model holds.
DimStep == 9
InfoStep == 11

\* The kind of object each step of db_schema creates. The two indexes
\* belong to the tables of the steps just before them. What a step of a
\* later program version creates is not known to this one.
SchemaViews == {3} \cup 23..28
SchemaIndexes == {10, 13}
SchemaTables == (0..(NumSteps - 1)) \ (SchemaViews \cup SchemaIndexes)
IndexedTable(k) == k - 1


(***************************************************************************)
(* load_json_pages: the paginated feed walker.                             *)
(***************************************************************************)
MaxPages == 2
MaxItems == 2
MaxProcs == 2

\* content-type headers as the server sends them, in tokens (";" and "="
\* are tokens of their own): with and without options, and with an option
\* that has no "=".
ContentTypes ==
    {<<"application/json">>,
     <<"application/json", ";", "odata", "=", "minimalmetadata">>,
     <<"application/json", ";", "q">>,
     <<"text/html">>,
     <<"text/html", ";", "q">>}

\* text.split(sep): the parts between the separators, at least one.
RECURSIVE Split(_, _)
Split(text, sep) ==
    IF text = <<>> THEN << <<>> >>
    ELSE LET rest == Split(Tail(text), sep)
         IN  IF Head(text) = sep
             THEN << <<>> >> \o rest
             ELSE << <<Head(text)>> \o Head(rest) >> \o Tail(rest)

\* parse_content_type(header): components[0] as the mime type; "v = kv[1]"
\* raises IndexError for an option without "=".
parse_content_type(header) ==
    LET components == Split(header, ";")
        options    == Tail(components)
    IN  [mime_type |-> Head(components),
         error |-> IF \E i \in 1..Len(options) : Len(Split(options[i], "=")) < 2
                   THEN "IndexError" ELSE "none"]

\* No test of the mime type at all.
ExpectedMimeType_any(mime_type) == TRUE

\* The negation of 'if (mime_type != "application/json")'.
ExpectedMimeType(mime_type) == mime_type = <<"application/json">>

\* The items of page i of a feed whose pages hold counts[1], counts[2], ...
\* items: each item is named by its place in the feed (1 = A, 2 = B, ...).
RECURSIVE ItemsBefore(_, _)
ItemsBefore(counts, i) ==
    IF i = 1 THEN 0 ELSE ItemsBefore(counts, i - 1) + counts[i - 1]

PageItems(counts, i) ==
    Interval(ItemsBefore(counts, i) + 1, ItemsBefore(counts, i) + 1 + counts[i])

\* A feed: the cached documents, each with its content-type and its "value"
\* list; every page but the last carries an odata.nextLink to the next one.
Feeds ==
    UNION {{[i \in 1..n |-> [content_type |-> headers[i], value |-> PageItems(counts, i)]] :
                counts \in [1..n -> 0..MaxItems], headers \in [1..n -> ContentTypes]} :
           n \in 1..MaxPages}

PjIdle == [pc |-> "idle", feed |-> <<>>, insert_procs |-> 0, at |-> 0, value |-> <<>>,
           more |-> FALSE, p |-> 0, v |-> 0, fetched |-> <<>>, error |-> "none"]

PagesIdle ==
    /\ pj = PjIdle
    /\ applications = <<>>

(***************************************************************************)
(* load_all and its loaders.                                               *)
(***************************************************************************)
\* The body of load_all: the loaders in the order it calls them. Each
\* loader's savepoint carries the loader's name.
load_all_itemsBeforeTypes ==
    <<"load_dataset_collections", "load_dataset_properties", "load_odata_catalogue",
      "load_odata_metadata_tags", "load_odata_dimension_items",
      "load_odata_dimension_types", "load_odata_dataset_dimensions",
      "load_odata_dataset_dimension_items">>

load_all ==
    <<"load_dataset_collections", "load_dataset_properties", "load_odata_catalogue",
      "load_odata_metadata_tags", "load_odata_dimension_types",
      "load_odata_dimension_items", "load_odata_dataset_dimensions",
      "load_odata_dataset_dimension_items">>

LoaderNames == Range(load_all)

LaIdle == [pc |-> "idle", k |-> 0, error |-> "none", status |-> "none"]

LoadAllIdle ==
    /\ la = LaIdle
    /\ loaded = [n \in LoaderNames |-> 0]
    /\ committed = [n \in LoaderNames |-> 0]
    /\ calls = <<>>

(***************************************************************************)
(* load_dataset_properties: the tables and the idle state.                 *)
(***************************************************************************)
PropTables == {"dataset_property_measure", "dataset_property_dimension",
               "dataset_property_dimension_alternative"}

NoDocument == [content_type |-> <<>>, entity_sets |-> <<>>]

LpIdle == [pc |-> "idle", call |-> 0, todo |-> <<>>, read |-> <<>>, error |-> "none"]

PropsIdle ==
    /\ docs = [english |-> NoDocument, welsh |-> NoDocument, extra |-> NoDocument]
    /\ propRows = [t \in PropTables |-> {}]
    /\ lp = LpIdle

(***************************************************************************)
(* Generic row procedures: converters, INSERT and CHECK_ROW, run against   *)
(* the odata_dataset_dimension table.                                      *)
(***************************************************************************)
\* [a-zA-Z], the characters dimension_name_to_key_re keeps.
Letters == {"a", "b", "c", "d", "e", "f", "g", "h", "i", "j", "k", "l", "m",
            "n", "o", "p", "q", "r", "s", "t", "u", "v", "w", "x", "y", "z",
            "A", "B", "C", "D", "E", "F", "G", "H", "I", "J", "K", "L", "M",
            "N", "O", "P", "Q", "R", "S", "T", "U", "V", "W", "X", "Y", "Z"}

IsLetter(ch) == ch \in Letters

\* dimension_name_to_key_re.sub("", v): a name is a sequence of characters.
dimension_name_to_key(v) == Str(SelectSeq(v[2], IsLetter))

\* One (column, converter, state) entry of a column map.
Col(column, converter, state) ==
    [column |-> column, converter |-> converter, state |-> state]

\* converter(state, dictionary): the value bound, or SkipRow raised, and the
\* autoincrement counters afterwards.
Convert(spec, dictionary, ctr) ==
    CASE spec.converter = "lookup" ->
            [skip |-> FALSE, value |-> dictionary[spec.state], ctr |-> ctr]
      [] spec.converter = "identity" ->
            [skip |-> FALSE, value |-> spec.state, ctr |-> ctr]
      [] spec.converter = "dimension_name_to_key" ->
            [skip |-> FALSE, value |-> dimension_name_to_key(dictionary[spec.state]),
             ctr |-> ctr]
      [] spec.converter = "autoincrement" ->
            [skip |-> FALSE, value |-> Integer(ctr[spec.state]),
             ctr |-> [ctr EXCEPT ![spec.state] = @ + 1]]
      [] spec.converter = "lookup_require_not_empty" ->
            IF dictionary[spec.state] = EmptyString
            THEN [skip |-> TRUE, value |-> NULL, ctr |-> ctr]
            ELSE [skip |-> FALSE, value |-> dictionary[spec.state], ctr |-> ctr]

\* "for x in the_map: try: bindings.append(bind(x, dictionary)) except
\* SkipRow: failed += 1": the bindings, the number of skips, the counters
\* afterwards and the columns whose converter ran, in order.
RECURSIVE BindAll_stopAtSkip(_, _, _)
BindAll_stopAtSkip(the_map, dictionary, ctr) ==
    IF the_map = <<>>
    THEN [bindings |-> <<>>, failed |-> 0, ctr |-> ctr, evaluated |-> <<>>]
    ELSE LET x    == Head(the_map)
             b    == Convert(x, dictionary, ctr)
             rest == BindAll_stopAtSkip(Tail(the_map), dictionary, b.ctr)
         IN  IF b.skip
             THEN [bindings |-> <<>>, failed |-> 1, ctr |-> b.ctr,
                   evaluated |-> <<x.column>>]
             ELSE [bindings  |-> <<[column |-> x.column, value |-> b.value]>> \o rest.bindings,
                   failed    |-> rest.failed,
                   ctr       |-> rest.ctr,
                   evaluated |-> <<x.column>> \o rest.evaluated]

RECURSIVE BindAll(_, _, _)
BindAll(the_map, dictionary, ctr) ==
    IF the_map = <<>>
    THEN [bindings |-> <<>>, failed |-> 0, ctr |-> ctr, evaluated |-> <<>>]
    ELSE LET x    == Head(the_map)
             b    == Convert(x, dictionary, ctr)
             rest == BindAll(Tail(the_map), dictionary, b.ctr)
         IN  [bindings  |-> IF b.skip THEN rest.bindings
                            ELSE <<[column |-> x.column, value |-> b.value]>> \o rest.bindings,
              failed    |-> rest.failed + (IF b.skip THEN 1 ELSE 0),
              ctr       |-> rest.ctr,
              evaluated |-> <<x.column>> \o rest.evaluated]

\* The columns of odata_dataset_dimension; all but semantic_key are NOT NULL.
DimColumns == {"dataset", "dimension", "dimension_index", "semantic_key"}
DimNotNull == {"dataset", "dimension", "dimension_index"}

\* The columns of odata_dataset_dimension_info that a constraint names or
\* that carry the dimension's name; the remaining five (description,
\* dataset_uri, dataset_dimension_uri, notes, external_uri) are
\* unconstrained texts copied from the item and are left out.
InfoColumns == {"dataset", "dimension_index", "lang", "dimension_localised", "dimension_name"}
InfoNotNull == {"dataset", "dimension_index", "lang"}

TableNames == {"odata_dataset_dimension", "odata_dataset_dimension_info"}

Columns(table) == IF table = "odata_dataset_dimension" THEN DimColumns ELSE InfoColumns

\* The two tables as the connection sees them.
DB == [t \in TableNames |-> IF t = "odata_dataset_dimension" THEN dimTable ELSE infoTable]

Bound(bindings, column) == \E i \in 1..Len(bindings) : bindings[i].column = column

ValueOf(bindings, column) ==
    bindings[CHOOSE i \in 1..Len(bindings) : bindings[i].column = column].value

\* The row "INSERT INTO t (columns) VALUES (bindings)" would store: a column
\* the map does not name is NULL.
RowOf(columns, bindings) ==
    [c \in columns |-> IF Bound(bindings, c) THEN ValueOf(bindings, c) ELSE NULL]

\* sqlite3.IntegrityError on odata_dataset_dimension: NOT NULL,
\* PRIMARY KEY(dataset, dimension), dimension_index UNIQUE.
\* (The foreign keys to dataset_collection and dataset_property_dimension are
\* taken to be satisfied: the loaders of those tables have run.)
DimIntegrityError(rows, bindings) ==
    \/ \E c \in DimNotNull : RowOf(DimColumns, bindings)[c] = NULL
    \/ \E r \in rows :
          \/ /\ r.dataset = ValueOf(bindings, "dataset")
             /\ r.dimension = ValueOf(bindings, "dimension")
          \/ r.dimension_index = ValueOf(bindings, "dimension_index")

\* sqlite3.IntegrityError on odata_dataset_dimension_info: NOT NULL,
\* PRIMARY KEY(dataset, dimension_index, lang) and FOREIGN KEY(dataset,
\* dimension_index) REFERENCES odata_dataset_dimension.  (The foreign key to
\* dataset_collection_info is taken to be satisfied: load_dataset_collections
\* has run.)
InfoIntegrityError(db, bindings) ==
    \/ \E c \in InfoNotNull : RowOf(InfoColumns, bindings)[c] = NULL
    \/ \E r \in db["odata_dataset_dimension_info"] :
          /\ r.dataset = ValueOf(bindings, "dataset")
          /\ r.dimension_index = ValueOf(bindings, "dimension_index")
          /\ r.lang = ValueOf(bindings, "lang")
    \/ ~\E r \in db["odata_dataset_dimension"] :
          /\ r.dataset = ValueOf(bindings, "dataset")
          /\ r.dimension_index = ValueOf(bindings, "dimension_index")

IntegrityError(table, db, bindings) ==
    IF table = "odata_dataset_dimension"
    THEN DimIntegrityError(db[table], bindings)
    ELSE InfoIntegrityError(db, bindings)

\* SQL's three-valued "=", "IS" and "OR" ("T", "F", "N" for NULL).
SqlEq(a, b) == IF a = NULL \/ b = NULL THEN "N" ELSE IF a = b THEN "T" ELSE "F"
SqlIs(a, b) == IF a = b THEN "T" ELSE "F"
SqlOr(p, q) == IF p = "T" \/ q = "T" THEN "T" ELSE IF p = "F" /\ q = "F" THEN "F" ELSE "N"

\* One "(column = ? OR column IS ?)" of CHECK_ROW's WHERE clause.
WhereCondition_eqOnly(value, bound) == SqlEq(value, bound)

WhereCondition(value, bound) == SqlOr(SqlEq(value, bound), SqlIs(value, bound))

\* SELECT COUNT(*) FROM t WHERE cond AND cond AND ...: a row counts when
\* every condition is true.
CountMatching(rows, bindings) ==
    Cardinality({r \in rows : \A i \in 1..Len(bindings) :
                    WhereCondition(r[bindings[i].column], bindings[i].value) = "T"})

\* "if (r[0] != 1): raise AssertionError".
CheckFails(count) == count # 1

\* The closure INSERT(table, the_map) returns, applied to one dictionary:
\* the tables and counters afterwards, how the call ended, and whether
\* cursor.execute ran.
INSERT(table, the_map, db, dictionary, ctr) ==
    LET b == BindAll(the_map, dictionary, ctr)
    IN  IF b.failed # 0
        THEN [db |-> db, ctr |-> b.ctr, result |-> "ok", executed |-> 0,
              count |-> 0, bound |-> b]
        ELSE IF IntegrityError(table, db, b.bindings)
        THEN [db |-> db, ctr |-> b.ctr, result |-> "IntegrityError", executed |-> 1,
              count |-> 0, bound |-> b]
        ELSE [db |-> [db EXCEPT ![table] = @ \cup {RowOf(Columns(table), b.bindings)}],
              ctr |-> b.ctr, result |-> "ok", executed |-> 1, count |-> 0, bound |-> b]

\* The closure CHECK_ROW(table, the_map) returns, applied to one dictionary.
CHECK_ROW(table, the_map, db, dictionary, ctr) ==
    LET b == BindAll(the_map, dictionary, ctr)
        n == CountMatching(db[table], b.bindings)
    IN  IF b.failed # 0
        THEN [db |-> db, ctr |-> b.ctr, result |-> "ok", executed |-> 0,
              count |-> 0, bound |-> b]
        ELSE [db |-> db, ctr |-> b.ctr,
              result |-> IF CheckFails(n) THEN "AssertionError" ELSE "ok",
              executed |-> 1, count |-> n, bound |-> b]

\* Dimension names as the feeds give them (DimensionName_ENG).
Area  == Str(<<"A", "r", "e", "a">>)
Year  == Str(<<"Y", "e", "a", "r">>)
Area2 == Str(<<"A", "r", "e", "a", " ", "2">>)

\* Dataset codes and semantic keys as the feeds give them.
D1  == Str(<<"d", "1">>)
D2  == Str(<<"d", "2">>)
SK1 == Str(<<"s", "k", "1">>)

\* The two counters load_odata_dataset_dimensions makes per pass.
CounterNames == {"autoincrement", "autoincrement_info"}

\* make_autoincrement(0), for every counter.
make_autoincrement(n) == [c \in CounterNames |-> n]

\* odata_dataset_dimension_map with no semantic_key column outside English.
odata_dataset_dimension_map_noSemanticKey(lang) ==
    IF lang = "en-gb"
    THEN << Col("dataset",         "lookup",                "Dataset"),
            Col("dimension",       "dimension_name_to_key", "DimensionName_ENG"),
            Col("dimension_index", "autoincrement",         "autoincrement"),
            Col("semantic_key",    "lookup",                "SemanticKey") >>
    ELSE << Col("dataset",         "lookup",                "Dataset"),
            Col("dimension_index", "autoincrement",         "autoincrement") >>

\* odata_dataset_dimension_map of load_odata_dataset_dimensions.load_from.
odata_dataset_dimension_map(lang) ==
    IF lang = "en-gb"
    THEN << Col("dataset",         "lookup",                "Dataset"),
            Col("dimension",       "dimension_name_to_key", "DimensionName_ENG"),
            Col("dimension_index", "autoincrement",         "autoincrement"),
            Col("semantic_key",    "lookup",                "SemanticKey") >>
    ELSE << Col("dataset",         "lookup",                "Dataset"),
            Col("dimension_index", "autoincrement",         "autoincrement"),
            Col("semantic_key",    "lookup",                "SemanticKey") >>

\* Column maps the row procedures are exercised with: the two maps above,
\* maps with a skipping converter before and after the autoincrement column
\* (as in odata_dataset_dimension_item_alternative_map), and a map that
\* binds no key column.
RowMapNames == {"en-gb", "cy-gb", "skip_before", "skip_after", "semantic_key"}

RowMap(name) ==
    CASE name \in {"en-gb", "cy-gb"} -> odata_dataset_dimension_map(name)
      [] name = "skip_before" ->
            << Col("semantic_key",    "lookup_require_not_empty", "SemanticKey"),
               Col("dataset",         "lookup",                   "Dataset"),
               Col("dimension",       "dimension_name_to_key",    "DimensionName_ENG"),
               Col("dimension_index", "autoincrement",            "autoincrement") >>
      [] name = "skip_after" ->
            << Col("dataset",         "lookup",                   "Dataset"),
               Col("dimension",       "dimension_name_to_key",    "DimensionName_ENG"),
               Col("dimension_index", "autoincrement",            "autoincrement_info"),
               Col("semantic_key",    "lookup_require_not_empty", "SemanticKey") >>
      [] name = "semantic_key" ->
            << Col("semantic_key",    "lookup",                   "SemanticKey") >>

\* The languages of the two passes, and the loader before it is called.
Langs == {"en-gb", "cy-gb"}

LdIdle == [pc |-> "idle", lang |-> "en-gb", source |-> "feed", page |-> <<>>,
           more |-> FALSE, p |-> 1, v |-> 1, error |-> "none"]

DimIdle ==
    /\ extras = <<>>
    /\ ld = LdIdle
    /\ seen = [l \in Langs |-> <<>>]
    /\ assigned = {}

\* check_uri_cache finding no row (None), and a response not yet received.
NoRow == [filename |-> NULL]

NoResponse == [status |-> 0, body |-> <<>>, headers |-> {}]

\* fetch_uri not running, and the record of no call.
FxIdle == [pc |-> "idle", uri |-> NULL, now |-> 0, retry_interval |-> 0, gets |-> 0,
           timeouts |-> 0, slept |-> <<>>, failed |-> FALSE, response |-> NoResponse,
           written |-> 0]

NoFetch == [uri |-> NULL, hit |-> FALSE, gets |-> 0, timeouts |-> 0, body |-> <<>>,
            outcome |-> "none", error |-> "none", entry |-> NoRow,
            at |-> "idle", slept |-> 0, failed |-> FALSE, loader |-> 0, loader_before |-> 0,
            again |-> FALSE, gets_before |-> 0, entry_before |-> NoRow]

FetchIdle ==
    /\ cacheRows = {}
    /\ tmpFiles = {}
    /\ ugcFiles = {}
    /\ durableRows = {}
    /\ clock = 0
    /\ fx = FxIdle
    /\ lastCall = NoFetch

\* Bound of the row-procedure specification: the largest value a counter
\* reaches.
MaxIndex == 2

\* The candidate rows (dictionaries) the procedures are applied to.
RowItems ==
    [Dataset : {D1}, DimensionName_ENG : {Area, Year},
     SemanticKey : {NULL, EmptyString, SK1}]

NoCall == [proc |-> "none", map |-> "none", item |-> <<>>, result |-> "ok",
           executed |-> 0, count |-> 0, evaluated |-> <<>>, bindings |-> <<>>,
           rowsBefore |-> {}, ctrBefore |-> make_autoincrement(0)]

\* The tables after upgrade_database on a new store, and no call made.
TablesEmpty ==
    /\ dimTable = {}
    /\ infoTable = {}
    /\ counters = make_autoincrement(0)

RowIdle == rowCall = NoCall

InitRow ==
    /\ TablesEmpty
    /\ RowIdle
    /\ PagesIdle
    /\ LoadAllIdle
    /\ PropsIdle
    /\ DimIdle
    /\ FetchIdle
    /\ savepoints = <<>>
    /\ objects = {}
    /\ meta = <<>>
    /\ MigIdle
    /\ applied = 0

CallRecord(proc, name, item, r) ==
    [proc |-> proc, map |-> name, item |-> item, result |-> r.result,
     executed |-> r.executed, count |-> r.count, evaluated |-> r.bound.evaluated,
     bindings |-> r.bound.bindings, rowsBefore |-> dimTable, ctrBefore |-> counters]

\* p(cursor, v) for an INSERT procedure p.
RowInsert ==
    \E name \in RowMapNames, item \in RowItems :
        /\ \A c \in CounterNames : counters[c] < MaxIndex
        /\ LET r == INSERT("odata_dataset_dimension", RowMap(name), DB, item, counters)
           IN  /\ dimTable' = r.db["odata_dataset_dimension"]
               /\ infoTable' = r.db["odata_dataset_dimension_info"]
               /\ counters' = r.ctr
               /\ rowCall' = CallRecord("INSERT", name, item, r)

\* p(cursor, v) for a CHECK_ROW procedure p.
RowCheck ==
    \E name \in RowMapNames, item \in RowItems :
        /\ \A c \in CounterNames : counters[c] < MaxIndex
        /\ LET r == CHECK_ROW("odata_dataset_dimension", RowMap(name), DB, item, counters)
           IN  /\ dimTable' = r.db["odata_dataset_dimension"]
               /\ infoTable' = r.db["odata_dataset_dimension_info"]
               /\ counters' = r.ctr
               /\ rowCall' = CallRecord("CHECK_ROW", name, item, r)

\* A new pass: fresh make_autoincrement(0) closures.
RowNewPass ==
    /\ counters # make_autoincrement(0)
    /\ counters' = make_autoincrement(0)
    /\ rowCall' = NoCall
    /\ UNCHANGED <<dimTable, infoTable>>

NextRow ==
    \/ RowInsert /\ UNCHANGED <<varsConn, varsMig, varsDim, varsFetch, varsPages, varsLoad, varsProps>>
    \/ RowCheck /\ UNCHANGED <<varsConn, varsMig, varsDim, varsFetch, varsPages, varsLoad, varsProps>>
    \/ RowNewPass /\ UNCHANGED <<varsConn, varsMig, varsDim, varsFetch, varsPages, varsLoad, varsProps>>

SpecRow == InitRow /\ [][NextRow]_vars

\* Some converter of the last call's map raised SkipRow for its dictionary
\* (lookup_require_not_empty is the one converter that does).
LastCallSkips ==
    /\ rowCall.proc # "none"
    /\ \E i \in 1..Len(RowMap(rowCall.map)) :
          /\ RowMap(rowCall.map)[i].converter = "lookup_require_not_empty"
          /\ rowCall.item[RowMap(rowCall.map)[i].state] = EmptyString

\* How many columns of the last call's map draw from counter c.
AutoincrementColumns(c) ==
    Cardinality({i \in 1..Len(RowMap(rowCall.map)) :
                    /\ RowMap(rowCall.map)[i].converter = "autoincrement"
                    /\ RowMap(rowCall.map)[i].state = c})

\* C5 (row-skip correctness): when a converter raises SkipRow for a candidate
\* row, the INSERT or CHECK_ROW procedure runs no database statement and
\* leaves the table as it was, returns normally, and has run the converter of
\* every column of the map once, in map order, so that each autoincrement
\* counter of the map, before or after the skipping column, is one higher.
Thm_C5_SkipRow ==
    LastCallSkips =>
        /\ rowCall.executed = 0
        /\ dimTable = rowCall.rowsBefore
        /\ rowCall.result = "ok"
        /\ rowCall.evaluated = [i \in 1..Len(RowMap(rowCall.map)) |-> RowMap(rowCall.map)[i].column]
        /\ \A c \in CounterNames : counters[c] = rowCall.ctrBefore[c] + AutoincrementColumns(c)

\* An INSERT skipped a row whose autoincrement column comes after the
\* skipping column, and the counter advanced past a value no row holds.
Wit_C5_SkipBeforeAutoincrement ==
    /\ LastCallSkips
    /\ rowCall.proc = "INSERT"
    /\ rowCall.map = "skip_before"
    /\ counters["autoincrement"] = rowCall.ctrBefore["autoincrement"] + 1
    /\ rowCall.ctrBefore["autoincrement"] = 1

\* The rows of the table that hold, column for column, the values the last
\* call bound (a bound NULL against a stored NULL counts).
MatchingRows ==
    {r \in rowCall.rowsBefore :
        \A i \in 1..Len(rowCall.bindings) :
            r[rowCall.bindings[i].column] = rowCall.bindings[i].value}

\* C6 (check-row semantics): a CHECK_ROW procedure that skips no row raises
\* the consistency AssertionError exactly when the number of rows equal to
\* the bound values in every bound column (NULL equal to NULL) is not one,
\* and returns silently, changing nothing, when it is one.
Thm_C6_CheckRow ==
    (rowCall.proc = "CHECK_ROW" /\ ~LastCallSkips) =>
        /\ rowCall.executed = 1
        /\ dimTable = rowCall.rowsBefore
        /\ (rowCall.result = "AssertionError") <=> (Cardinality(MatchingRows) # 1)
        /\ (rowCall.result = "ok") <=> (Cardinality(MatchingRows) = 1)

\* A check bound NULL for semantic_key and passed on the one row storing NULL,
\* while the table holds another row as well.
Wit_C6_NullMatchesNull ==
    /\ rowCall.proc = "CHECK_ROW"
    /\ rowCall.result = "ok"
    /\ rowCall.executed = 1
    /\ \E i \in 1..Len(rowCall.bindings) : rowCall.bindings[i].value = NULL
    /\ Cardinality(dimTable) = 2

(***************************************************************************)
(* The cross-language dataset-dimension loader:                            *)
(* load_odata_dataset_dimensions, its load_from and load_json_pages.       *)
(* The feed pages are JSON documents that fetch_uri has already stored.    *)
(***************************************************************************)
Age      == Str(<<"A", "g", "e">>)
Ardal    == Str(<<"A", "r", "d", "a", "l">>)
Blwyddyn == Str(<<"B", "l", "w", "y", "d", "d", "y", "n">>)
Oed      == Str(<<"O", "e", "d">>)
Ardal2   == Str(<<"A", "r", "d", "a", "l", " ", "2">>)

\* The value "identity" binds for the lang column.
LangText(lang) ==
    IF lang = "en-gb" THEN Str(<<"e", "n", "-", "g", "b">>)
                      ELSE Str(<<"c", "y", "-", "g", "b">>)

\* keys[lang] of {"en-gb": "DimensionName_ENG", "cy-gb": "DimensionName_WEL"}.
NameKey(lang) == IF lang = "en-gb" THEN "DimensionName_ENG" ELSE "DimensionName_WEL"

\* odata_dataset_dimension_info_map of load_from, with the shared counter
\* in place of autoincrement_info.
odata_dataset_dimension_info_map_sharedCounter(lang) ==
    << Col("dataset",             "lookup",                "Dataset"),
       Col("dimension_index",     "autoincrement",         "autoincrement"),
       Col("lang",                "identity",              LangText(lang)),
       Col("dimension_localised", "dimension_name_to_key", NameKey(lang)),
       Col("dimension_name",      "lookup",                NameKey(lang)) >>

\* odata_dataset_dimension_info_map of load_from.
odata_dataset_dimension_info_map(lang) ==
    << Col("dataset",             "lookup",                "Dataset"),
       Col("dimension_index",     "autoincrement",         "autoincrement_info"),
       Col("lang",                "identity",              LangText(lang)),
       Col("dimension_localised", "dimension_name_to_key", NameKey(lang)),
       Col("dimension_name",      "lookup",                NameKey(lang)) >>

\* make_procs: the INSERT procedure if the table is to be inserted, then the
\* CHECK_ROW procedure if it is to be checked.
make_procs(table, the_map, insert, check) ==
    (IF table \in insert
     THEN <<[kind |-> "INSERT", table |-> table, map |-> the_map]>> ELSE <<>>)
    \o (IF table \in check
        THEN <<[kind |-> "CHECK_ROW", table |-> table, map |-> the_map]>> ELSE <<>>)

\* The procs list load_from(local_file, lang, insert, check) builds.
load_from(lang, insert, check) ==
    make_procs("odata_dataset_dimension", odata_dataset_dimension_map(lang), insert, check)
    \o make_procs("odata_dataset_dimension_info", odata_dataset_dimension_info_map(lang),
                  insert, check)

\* The calls of load_from with the Welsh procedure list in the other order:
\* the INSERT of odata_dataset_dimension_info before the CHECK_ROW of
\* odata_dataset_dimension.
PassProcs_welshInsertFirst(lang) ==
    IF lang = "en-gb"
    THEN load_from(lang, {"odata_dataset_dimension", "odata_dataset_dimension_info"}, {})
    ELSE make_procs("odata_dataset_dimension_info", odata_dataset_dimension_info_map(lang),
                    {"odata_dataset_dimension_info"}, {})
         \o make_procs("odata_dataset_dimension", odata_dataset_dimension_map(lang),
                       {}, {"odata_dataset_dimension"})

\* The insert and check arguments of the calls of load_from: English inserts
\* both tables, every other language checks odata_dataset_dimension and
\* inserts odata_dataset_dimension_info.
PassProcs(lang) ==
    IF lang = "en-gb"
    THEN load_from(lang, {"odata_dataset_dimension", "odata_dataset_dimension_info"}, {})
    ELSE load_from(lang, {"odata_dataset_dimension_info"}, {"odata_dataset_dimension"})

\* p(cursor, v) for a procedure make_procs made.
ApplyProc(proc, db, dictionary, ctr) ==
    IF proc.kind = "INSERT"
    THEN INSERT(proc.table, proc.map, db, dictionary, ctr)
    ELSE CHECK_ROW(proc.table, proc.map, db, dictionary, ctr)

\* One item of a "value" array of .../discover/datasetdimensions or of
\* extra.odata_dataset_dimensions.json.
Item(dataset, name_eng, name_wel, key) ==
    [Dataset |-> dataset, DimensionName_ENG |-> name_eng,
     DimensionName_WEL |-> name_wel, SemanticKey |-> key]

\* The dimensions the feeds and the extras file list: two of one dataset
\* with no semantic key, one with a key, and two of another dataset whose
\* names give the same key.
DimensionRows ==
    { Item(D1, Area, Ardal, SK1),
      Item(D1, Year, Blwyddyn, NULL),
      Item(D1, Age, Oed, NULL),
      Item(D2, Area, Ardal, SK1),
      Item(D2, Area2, Ardal2, NULL) }

\* Bounds: rows of one language's feed, rows of the extras file, and the
\* rows the service puts on one page.
MaxRows  == 3
MaxExtra == 1
PageSize == 2

SeqsUpTo(S, n) == UNION {[1..k -> S] : k \in 0..n}

\* The pages fetch_uri can return when `read` rows of the feed have been
\* read: "value" and whether the page has an odata.nextLink (a page that has
\* one is full).
Pages(read) ==
    {pg \in [value : SeqsUpTo(DimensionRows, PageSize), more : BOOLEAN] :
        /\ read + Len(pg.value) <= MaxRows
        /\ pg.more => (Len(pg.value) = PageSize /\ read + Len(pg.value) < MaxRows)}

InitDim ==
    /\ TablesEmpty
    /\ RowIdle
    /\ PagesIdle
    /\ LoadAllIdle
    /\ PropsIdle
    /\ FetchIdle
    /\ extras \in SeqsUpTo(DimensionRows, MaxExtra)
    /\ ld = LdIdle
    /\ seen = [l \in Langs |-> <<>>]
    /\ assigned = {}
    /\ savepoints = <<>>
    /\ objects = {}
    /\ meta = <<>>
    /\ MigIdle
    /\ applied = 0

\* load_json_pages has run every procedure over every item of the page.
PageDone == ld.pc = "page" /\ (ld.page = <<>> \/ ld.p > Len(PassProcs(ld.lang)))

\* The position, in the pass's document order, of item v of the page.
RowOrdinal ==
    IF ld.source = "feed"
    THEN Len(seen[ld.lang]) - Len(ld.page) + ld.v
    ELSE Len(seen[ld.lang]) + ld.v

\* SAVEPOINT, the English counters, and the first page of the English feed.
LoadBegin ==
    /\ ld.pc = "idle"
    /\ savepoints' = Savepoint(savepoints, "load_odata_dataset_dimensions")
    /\ counters' = make_autoincrement(0)
    /\ \E pg \in Pages(0) :
          /\ ld' = [pc |-> "page", lang |-> "en-gb", source |-> "feed", page |-> pg.value,
                    more |-> pg.more, p |-> 1, v |-> 1, error |-> "none"]
          /\ seen' = [seen EXCEPT !["en-gb"] = pg.value]
    /\ UNCHANGED <<dimTable, infoTable, extras, assigned>>

\* One p(cursor, v) of "for p in insert_procs: for v in value"; an exception
\* leaves load_odata_dataset_dimensions.
LoadApply ==
    /\ ld.pc = "page"
    /\ ~PageDone
    /\ LET proc == PassProcs(ld.lang)[ld.p]
           r    == ApplyProc(proc, DB, ld.page[ld.v], counters)
       IN  /\ dimTable' = r.db["odata_dataset_dimension"]
           /\ infoTable' = r.db["odata_dataset_dimension_info"]
           /\ counters' = r.ctr
           /\ assigned' = assigned \cup
                 {[lang |-> ld.lang, kind |-> proc.kind, table |-> proc.table,
                   source |-> ld.source, row |-> RowOrdinal, item |-> ld.page[ld.v],
                   index |-> ValueOf(r.bound.bindings, "dimension_index")[2],
                   result |-> r.result]}
           /\ ld' = IF r.result # "ok"
                    THEN [ld EXCEPT !.pc = "failed", !.error = r.result]
                    ELSE IF ld.v < Len(ld.page)
                    THEN [ld EXCEPT !.v = @ + 1]
                    ELSE [ld EXCEPT !.p = @ + 1, !.v = 1]
    /\ UNCHANGED <<savepoints, extras, seen>>

\* "if (more): local_file = fetch_uri(more)": the next page of the feed.
LoadNextPage ==
    /\ PageDone
    /\ ld.more
    /\ \E pg \in Pages(Len(seen[ld.lang])) :
          /\ ld' = [ld EXCEPT !.page = pg.value, !.more = pg.more, !.p = 1, !.v = 1]
          /\ seen' = [seen EXCEPT ![ld.lang] = @ \o pg.value]
    /\ UNCHANGED <<savepoints, dimTable, infoTable, counters, extras, assigned>>

\* load_from on extra.odata_dataset_dimensions.json, same language, with the
\* counters as the feed left them.
LoadExtra ==
    /\ PageDone
    /\ ~ld.more
    /\ ld.source = "feed"
    /\ ld' = [ld EXCEPT !.source = "extra", !.page = extras, !.more = FALSE,
                        !.p = 1, !.v = 1]
    /\ UNCHANGED <<savepoints, dimTable, infoTable, counters, extras, seen, assigned>>

\* New counters, and the first page of the Welsh feed.
LoadWelsh ==
    /\ PageDone
    /\ ~ld.more
    /\ ld.source = "extra"
    /\ ld.lang = "en-gb"
    /\ counters' = make_autoincrement(0)
    /\ \E pg \in Pages(0) :
          /\ ld' = [pc |-> "page", lang |-> "cy-gb", source |-> "feed", page |-> pg.value,
                    more |-> pg.more, p |-> 1, v |-> 1, error |-> "none"]
          /\ seen' = [seen EXCEPT !["cy-gb"] = pg.value]
    /\ UNCHANGED <<savepoints, dimTable, infoTable, extras, assigned>>

\* RELEASE load_odata_dataset_dimensions.
LoadEnd ==
    /\ PageDone
    /\ ~ld.more
    /\ ld.source = "extra"
    /\ ld.lang = "cy-gb"
    /\ savepoints' = Release(savepoints, "load_odata_dataset_dimensions")
    /\ ld' = [ld EXCEPT !.pc = "done"]
    /\ UNCHANGED <<dimTable, infoTable, counters, extras, seen, assigned>>

NextDim ==
    \/ LoadBegin /\ UNCHANGED <<foreign_keys, varsMig, varsRow, varsFetch, varsPages, varsLoad, varsProps>>
    \/ LoadApply /\ UNCHANGED <<foreign_keys, varsMig, varsRow, varsFetch, varsPages, varsLoad, varsProps>>
    \/ LoadNextPage /\ UNCHANGED <<foreign_keys, varsMig, varsRow, varsFetch, varsPages, varsLoad, varsProps>>
    \/ LoadExtra /\ UNCHANGED <<foreign_keys, varsMig, varsRow, varsFetch, varsPages, varsLoad, varsProps>>
    \/ LoadWelsh /\ UNCHANGED <<foreign_keys, varsMig, varsRow, varsFetch, varsPages, varsLoad, varsProps>>
    \/ LoadEnd /\ UNCHANGED <<foreign_keys, varsMig, varsRow, varsFetch, varsPages, varsLoad, varsProps>>

SpecDim == InitDim /\ [][NextDim]_vars

\* The rows of a pass in document order: the feed's pages, then the extras
\* file.
PassRows(lang) == seen[lang] \o extras

Count(s, x) == Cardinality({i \in 1..Len(s) : s[i] = x})

\* The Welsh feed has been read to its last page and lists the dimensions of
\* the English feed, as many times each, in another order.
Reordered ==
    /\ ld.lang = "cy-gb"
    /\ ~ld.more
    /\ Len(seen["cy-gb"]) = Len(seen["en-gb"])
    /\ \A x \in DimensionRows : Count(seen["cy-gb"], x) = Count(seen["en-gb"], x)
    /\ seen["cy-gb"] # seen["en-gb"]

\* The English pass has a k-th row and it has the dataset and the semantic
\* key of the item.
AlignedAt(k, item) ==
    /\ k <= Len(PassRows("en-gb"))
    /\ PassRows("en-gb")[k].Dataset = item.Dataset
    /\ PassRows("en-gb")[k].SemanticKey = item.SemanticKey

\* C2 (reconciliation invariant): every procedure application of either pass
\* is to the row at its position in the pass's document order (feed pages,
\* then the extras file) and binds that position minus one as the synthetic
\* index, so that the odata_dataset_dimension procedure and the
\* odata_dataset_dimension_info procedure bind the same index for the same
\* source row.
Thm_C2_IndexIsPosition ==
    /\ \A a \in assigned :
          /\ a.row \in 1..Len(PassRows(a.lang))
          /\ a.item = PassRows(a.lang)[a.row]
          /\ a.index = a.row - 1
    /\ \A a, b \in assigned :
          (a.lang = b.lang /\ a.row = b.row) => a.index = b.index

\* The load completed, and the Welsh pass inserted the translation of an
\* extras row under an index beyond the first page, after a feed of more
\* than one page.
Wit_C2_WelshExtraRowIndexed ==
    /\ ld.pc = "done"
    /\ \E a \in assigned :
          /\ a.lang = "cy-gb"
          /\ a.source = "extra"
          /\ a.table = "odata_dataset_dimension_info"
          /\ a.result = "ok"
          /\ a.index > PageSize
          /\ \E r \in infoTable : r.dimension_index = Integer(a.index) /\ r.lang = LangText("cy-gb")

\* C3 as the specification states it: a load whose Welsh feed lists the
\* English feed's dimensions in a different order does not complete.
Cex_C3_ReorderAlwaysFails == Reordered => ld.pc # "done"

\* C3 (amended): the check of the Welsh pass at position k raises the
\* consistency AssertionError, and the load stops there, exactly when the
\* English pass has no k-th row or its k-th row differs from the Welsh row
\* in dataset or semantic key; so a load whose Welsh feed is the English
\* feed reordered completes only if every position agrees in those two
\* fields.
Thm_C3_ReorderCaughtByDatasetOrKey ==
    /\ \A a \in assigned :
          (a.lang = "cy-gb" /\ a.kind = "CHECK_ROW") =>
              /\ (a.result = "AssertionError") <=> ~AlignedAt(a.row, a.item)
              /\ (a.result = "AssertionError") =>
                    (ld.pc = "failed" /\ ld.error = "AssertionError")
    /\ (Reordered /\ ld.pc = "done") =>
          \A k \in 1..Len(seen["cy-gb"]) : AlignedAt(k, seen["cy-gb"][k])
    /\ (Reordered /\ \E k \in 1..Len(seen["cy-gb"]) : ~AlignedAt(k, seen["cy-gb"][k])) =>
          ld.pc # "done"

\* The Welsh feed is the English feed reordered, the rows swapped differ in
\* semantic key, and the check raised at the first of them.
Wit_C3_ReorderCaught ==
    /\ Reordered
    /\ ld.pc = "failed"
    /\ ld.error = "AssertionError"
    /\ \E a \in assigned :
          /\ a.lang = "cy-gb"
          /\ a.kind = "CHECK_ROW"
          /\ a.result = "AssertionError"
          /\ a.item.Dataset = PassRows("en-gb")[a.row].Dataset
          /\ a.item.SemanticKey # PassRows("en-gb")[a.row].SemanticKey

\* C4 as the specification states it, for a non-empty extras file: a load
\* whose Welsh feed has more or fewer rows than the English feed does not
\* complete.
Cex_C4_CardinalityMismatchFails ==
    (ld.lang = "cy-gb" /\ extras # <<>> /\ Len(seen["cy-gb"]) # Len(seen["en-gb"])) =>
        ld.pc # "done"

(***************************************************************************)
(* The fetch cache: check_uri_cache and fetch_uri.                         *)
(***************************************************************************)
Real(t) == <<"real", t>>

\* A natural number as decimal digits, and back.
DigitChars == <<"0", "1", "2", "3", "4", "5", "6", "7", "8", "9">>

RECURSIVE DecimalText(_)
DecimalText(n) ==
    IF n < 10 THEN <<DigitChars[n + 1]>>
    ELSE DecimalText(n \div 10) \o <<DigitChars[(n % 10) + 1]>>

DigitValue(ch) == (CHOOSE i \in 1..10 : DigitChars[i] = ch) - 1

RECURSIVE ParseDecimal(_)
ParseDecimal(chars) ==
    IF chars = <<>> THEN 0
    ELSE 10 * ParseDecimal(SubSeq(chars, 1, Len(chars) - 1)) + DigitValue(chars[Len(chars)])

\* Bounds: the ticks of time.time() that sqlite renders as one text, the
\* last tick of the clock (each call of fetch_uri reads a later one), the
\* timeouts one call meets, and the fetch_uri savepoints that failed calls
\* leave open.
TicksPerText  == 2
MaxClock      == 3
MaxTimeouts   == 4
MaxSavepoints == 1

\* "retry_max = 512" and "retry_interval = 64".
retry_max == 512
InitialRetryInterval == 64

\* A value stored in a column of TEXT affinity, or compared with one: a
\* real becomes its text, which keeps fewer digits than the real has.
TextAffinity(v) ==
    IF v[1] = "real" THEN Str(DecimalText(v[2] \div TicksPerText)) ELSE v

\* A value stored in a column of INTEGER affinity: a text that is a
\* well-formed number becomes that number.
IntegerAffinity(v) ==
    IF v[1] = "text" /\ v[2] # <<>> /\ \A i \in 1..Len(v[2]) : v[2][i] \in Range(DigitChars)
    THEN Integer(ParseDecimal(v[2]))
    ELSE v

\* The columns of spider_uri_cache, and those check_uri_cache selects.
CacheColumns == {"uri", "timestamp", "status", "content-type", "content-length",
                 "cache-control", "pragma", "expires", "date", "filename"}
EntryColumns == {"timestamp", "status", "content-type", "content-length", "filename"}

\* The rows matched when the timestamp is compared as the real it is.
CacheMatches_noAffinity(rows, uri, timestamp) ==
    IF timestamp = NULL
    THEN {r \in rows : r.uri = uri}
    ELSE {r \in rows : r.uri = uri /\ SqlEq(r.timestamp, timestamp) = "T"}

\* A cache that passes over the rows of responses other than 200.
CacheMatches_okOnly(rows, uri, timestamp) ==
    {r \in rows : r.uri = uri /\ r.status = Integer(200)}

\* The rows a SELECT of check_uri_cache matches: the timestamp column has
\* TEXT affinity, which the comparison applies to the bound value.
CacheMatches(rows, uri, timestamp) ==
    IF timestamp = NULL
    THEN {r \in rows : r.uri = uri}
    ELSE {r \in rows : r.uri = uri /\ SqlEq(r.timestamp, TextAffinity(timestamp)) = "T"}

\* A cache that never finds a row.
check_uri_cache_noRow(rows, uri, timestamp) == NoRow

\* check_uri_cache(uri, timestamp): fetchone() of the matching rows, which
\* the WITHOUT ROWID table yields in primary-key order.
check_uri_cache(rows, uri, timestamp) ==
    LET M == CacheMatches(rows, uri, timestamp)
        first == CHOOSE r \in M :
                    \A q \in M : ParseDecimal(r.timestamp[2]) <= ParseDecimal(q.timestamp[2])
    IN  IF M = {} THEN NoRow ELSE [c \in EntryColumns |-> first[c]]

\* What the service can answer.
URIs == {Str(<<"u1">>), Str(<<"u2">>)}
Statuses == {200, 404}
Bodies == {<<"a">>, <<"a", "b">>}
StoredHeaders == {"content-type", "content-length", "cache-control", "pragma", "expires", "date"}
HeaderSets == {StoredHeaders, StoredHeaders \ {"content-length"}}
Responses == [status : Statuses, body : Bodies, headers : HeaderSets]

\* response.headers[name], for a header the response has.
HeaderValue(response, name) ==
    CASE name = "content-type"   -> Str(<<"application/json">>)
      [] name = "content-length" -> Str(DecimalText(Len(response.body)))
      [] name = "cache-control"  -> Str(<<"private">>)
      [] name = "pragma"         -> Str(<<"no-cache">>)
      [] name = "expires"        -> Str(<<"-1">>)
      [] name = "date"           -> Str(<<"date">>)

\* digest.hexdigest() of the chunks written, and "temp-%d" % os.getpid().
hexdigest(body) == Str(<<"sha256">> \o body)
TempName == Str(<<"temp-pid">>)

File(name, content) == [name |-> name, content |-> content]

Exists(files, name) == \E f \in files : f.name = name

ContentOf(files, name) == (CHOOSE f \in files : f.name = name).content

Without(files, name) == {f \in files : f.name # name}

\* The directory after a file is written or renamed to a name (os.rename
\* replaces a file of that name).
WithFile(files, name, content) == Without(files, name) \cup {File(name, content)}

\* The row the INSERT of fetch_uri stores.
CacheRow_uriAsFilename(uri, now, response, filename) ==
    [c \in CacheColumns |->
        CASE c = "uri"            -> uri
          [] c = "timestamp"      -> TextAffinity(now)
          [] c = "status"         -> Integer(response.status)
          [] c = "content-length" -> IntegerAffinity(HeaderValue(response, c))
          [] c = "filename"       -> uri
          [] OTHER                -> HeaderValue(response, c)]

CacheRow(uri, now, response, filename) ==
    [c \in CacheColumns |->
        CASE c = "uri"            -> uri
          [] c = "timestamp"      -> TextAffinity(now)
          [] c = "status"         -> Integer(response.status)
          [] c = "content-length" -> IntegerAffinity(HeaderValue(response, c))
          [] c = "filename"       -> filename
          [] OTHER                -> HeaderValue(response, c)]

\* The committed rows if every statement committed by itself, savepoint or
\* not.
Durable_autocommit(sp, rows, durable) == rows

\* The committed rows of spider_uri_cache after a statement that leaves the
\* savepoint stack sp and the rows `rows`: the statement commits only when
\* no savepoint is open any more; inside "SAVEPOINT fetch_uri" or a loader's
\* savepoint the rows are pending.
Durable(sp, rows, durable) == IF in_transaction(sp) THEN durable ELSE rows

\* PRIMARY KEY(uri, timestamp) of spider_uri_cache.
CacheIntegrityError(rows, row) ==
    \E r \in rows : r.uri = row.uri /\ r.timestamp = row.timestamp

\* initialise() has brought the store to the current schema; fetch_uri is
\* called by itself or inside a loader's savepoint.
InitFetch ==
    /\ FetchIdle
    /\ savepoints \in {<<>>, <<"load_odata_dataset_dimensions">>}
    /\ objects = 0..(NumSteps - 1)
    /\ meta = <<NumSteps>>
    /\ applied = NumSteps
    /\ MigIdle
    /\ TablesEmpty
    /\ RowIdle
    /\ PagesIdle
    /\ LoadAllIdle
    /\ PropsIdle
    /\ DimIdle

\* fetch_uri returns or raises: the call enters the history.
\* The call before it counts as the first of two in a row when it was for
\* the same URI and returned.
\* What is known of a call when it ends.
Ended(call, hit, outcome, error, entry) ==
    LET again == lastCall.uri = call.uri /\ lastCall.outcome = "returned"
    IN  [uri |-> call.uri, hit |-> hit, gets |-> call.gets,
         timeouts |-> call.timeouts,
         body |-> IF outcome \in {"returned", "killed"} THEN call.response.body ELSE <<>>,
         outcome |-> outcome, error |-> error, entry |-> entry,
         at |-> call.pc, slept |-> Len(call.slept), failed |-> call.failed,
         loader |-> IF la.pc = "body" THEN la.k ELSE 0,
         loader_before |-> IF again THEN lastCall.loader ELSE 0,
         again |-> again,
         gets_before |-> IF again THEN lastCall.gets ELSE 0,
         entry_before |-> IF again THEN lastCall.entry ELSE NoRow]

CallEnded(call, hit, outcome, error, entry) ==
    /\ lastCall' = Ended(call, hit, outcome, error, entry)
    /\ fx' = FxIdle

\* "now = time.time()": later than at the call before.
Ticks == {t \in {clock + 1} : t <= MaxClock}

\* fetch_uri(base, path), cache hit: "if (local is not None): return local".
FetchHit ==
    /\ fx.pc = "idle"
    /\ \E uri \in URIs, t \in Ticks :
          /\ check_uri_cache(cacheRows, uri, NULL) # NoRow
          /\ clock' = t
          /\ CallEnded([FxIdle EXCEPT !.uri = uri], TRUE, "returned", "none",
                       check_uri_cache(cacheRows, uri, NULL))
    /\ UNCHANGED <<savepoints, cacheRows, durableRows, tmpFiles, ugcFiles>>

\* fetch_uri(base, path), cache miss: on to the retry loop.
FetchMiss ==
    /\ fx.pc = "idle"
    /\ \E uri \in URIs, t \in Ticks :
          /\ check_uri_cache(cacheRows, uri, NULL) = NoRow
          /\ clock' = t
          /\ fx' = [FxIdle EXCEPT !.pc = "get", !.uri = uri, !.now = t,
                                  !.retry_interval = InitialRetryInterval]
    /\ UNCHANGED <<savepoints, cacheRows, durableRows, tmpFiles, ugcFiles, lastCall>>

\* "retry_interval *= 2", capped at retry_max.
NextInterval_uncapped(interval) == interval * 2

NextInterval(interval) ==
    IF interval * 2 > retry_max THEN retry_max ELSE interval * 2

\* The except clauses of the retry loop and the statements after them:
\* sleep, double the interval, and go round "while True" again.
AfterTimeout_givesUp(f) ==
    [f EXCEPT !.gets = @ + 1, !.timeouts = @ + 1,
              !.slept = Append(@, f.retry_interval),
              !.retry_interval = NextInterval(@),
              !.pc = IF f.retry_interval = retry_max THEN "idle" ELSE "get"]

AfterTimeout(f) ==
    [f EXCEPT !.gets = @ + 1, !.timeouts = @ + 1,
              !.slept = Append(@, f.retry_interval),
              !.retry_interval = NextInterval(@)]

\* http.get raises ReadTimeout or ConnectTimeout: sleep, double, try again.
HttpTimeout ==
    /\ fx.pc = "get"
    /\ fx.timeouts < MaxTimeouts
    /\ fx' = AfterTimeout(fx)
    /\ UNCHANGED <<savepoints, cacheRows, durableRows, tmpFiles, ugcFiles, clock, lastCall>>

\* The call after an exception of http.get that the second except clause
\* had caught as well: sleep, double, and round the loop again.
AfterFailure_retried(f) == [AfterTimeout(f) EXCEPT !.failed = TRUE]

\* The call after an exception of http.get that neither except clause
\* names: the request was made, and the exception is on its way out of
\* the loop and of fetch_uri.
AfterFailure(f) == [f EXCEPT !.gets = @ + 1, !.failed = TRUE, !.pc = "raise"]

\* http.get raises any other exception: it leaves fetch_uri.
HttpError ==
    /\ fx.pc = "get"
    /\ LET f == AfterFailure(fx)
       IN  IF f.pc = "raise"
           THEN CallEnded([f EXCEPT !.pc = fx.pc], FALSE, "raised", "RequestException", NoRow)
           ELSE /\ fx.timeouts < MaxTimeouts
                /\ fx' = f
                /\ UNCHANGED lastCall
    /\ UNCHANGED <<savepoints, cacheRows, durableRows, tmpFiles, ugcFiles, clock>>

\* http.get returns a response.
HttpResponse ==
    /\ fx.pc = "get"
    /\ \E response \in Responses :
          /\ response.headers # StoredHeaders =>
                Cardinality({i \in 1..Len(savepoints) : savepoints[i] = "fetch_uri"}) < MaxSavepoints
          /\ fx' = [fx EXCEPT !.gets = @ + 1, !.response = response, !.pc = "open"]
    /\ UNCHANGED <<savepoints, cacheRows, durableRows, tmpFiles, ugcFiles, clock, lastCall>>

\* Mode 'wb': an existing file is truncated.
FileExistsError_truncates(files, name) == FALSE

\* Mode 'xb': the open fails when the file exists.
FileExistsError(files, name) == Exists(files, name)

\* open("tmp/temp-<pid>", 'xb').
FetchOpenTemp ==
    /\ fx.pc = "open"
    /\ IF FileExistsError(tmpFiles, TempName)
       THEN /\ CallEnded(fx, FALSE, "raised", "FileExistsError", NoRow)
            /\ UNCHANGED tmpFiles
       ELSE /\ tmpFiles' = WithFile(tmpFiles, TempName, <<>>)
            /\ fx' = [fx EXCEPT !.pc = "stream"]
            /\ UNCHANGED lastCall
    /\ UNCHANGED <<savepoints, cacheRows, durableRows, ugcFiles, clock>>

\* One chunk of response.iter_content: fd.write(chunk), digest.update(chunk).
FetchWriteChunk ==
    /\ fx.pc = "stream"
    /\ fx.written < Len(fx.response.body)
    /\ tmpFiles' = WithFile(tmpFiles, TempName,
                            Append(ContentOf(tmpFiles, TempName),
                                   fx.response.body[fx.written + 1]))
    /\ fx' = [fx EXCEPT !.written = @ + 1]
    /\ UNCHANGED <<savepoints, cacheRows, durableRows, ugcFiles, clock, lastCall>>

\* fd.write raises before the body is complete (http.get is called without
\* stream=True, so the body is in memory and iter_content reads no socket):
\* the exception leaves fetch_uri and the staging file stays.
FetchStreamError ==
    /\ fx.pc = "stream"
    /\ fx.written < Len(fx.response.body)
    /\ CallEnded(fx, FALSE, "raised", "OSError", NoRow)
    /\ UNCHANGED <<savepoints, cacheRows, durableRows, tmpFiles, ugcFiles, clock>>

\* The "with open(...)" block is left normally: iter_content is exhausted
\* and every chunk of the body is written.
BodyComplete_firstChunk(f) == f.written >= 1

BodyComplete(f) == f.written = Len(f.response.body)

\* os.rename("tmp/temp-<pid>", "tmp/<digest>").
FetchRenameTmp ==
    /\ fx.pc = "stream"
    /\ BodyComplete(fx)
    /\ tmpFiles' = WithFile(Without(tmpFiles, TempName),
                            hexdigest(ContentOf(tmpFiles, TempName)),
                            ContentOf(tmpFiles, TempName))
    /\ fx' = [fx EXCEPT !.pc = "insert"]
    /\ UNCHANGED <<savepoints, cacheRows, durableRows, ugcFiles, clock, lastCall>>

\* SAVEPOINT fetch_uri and the INSERT: response.headers[...] raises KeyError
\* for a header the response lacks.
FetchInsert ==
    /\ fx.pc = "insert"
    /\ savepoints' = Savepoint(savepoints, "fetch_uri")
    /\ IF fx.response.headers # StoredHeaders
       THEN /\ CallEnded(fx, FALSE, "raised", "KeyError", NoRow)
            /\ UNCHANGED cacheRows
       ELSE LET row == CacheRow(fx.uri, Real(fx.now), fx.response,
                                hexdigest(fx.response.body))
            IN  IF CacheIntegrityError(cacheRows, row)
                THEN /\ CallEnded(fx, FALSE, "raised", "IntegrityError", NoRow)
                     /\ UNCHANGED cacheRows
                ELSE /\ cacheRows' = cacheRows \cup {row}
                     /\ fx' = [fx EXCEPT !.pc = "rename"]
                     /\ UNCHANGED lastCall
    /\ durableRows' = Durable(savepoints', cacheRows', durableRows)
    /\ UNCHANGED <<tmpFiles, ugcFiles, clock>>

\* os.rename("tmp/<digest>", "ugc/<digest>").
FetchRenameUgc ==
    /\ fx.pc = "rename"
    /\ LET name == hexdigest(fx.response.body)
       IN  /\ ugcFiles' = WithFile(ugcFiles, name, ContentOf(tmpFiles, name))
           /\ tmpFiles' = Without(tmpFiles, name)
    /\ fx' = [fx EXCEPT !.pc = "release"]
    /\ UNCHANGED <<savepoints, cacheRows, durableRows, clock, lastCall>>

\* RELEASE fetch_uri.
FetchRelease ==
    /\ fx.pc = "release"
    /\ savepoints' = Release(savepoints, "fetch_uri")
    /\ durableRows' = Durable(savepoints', cacheRows, durableRows)
    /\ fx' = [fx EXCEPT !.pc = "reread"]
    /\ UNCHANGED <<cacheRows, tmpFiles, ugcFiles, clock, lastCall>>

\* "local = check_uri_cache(uri, now); return local".
FetchReturn ==
    /\ fx.pc = "reread"
    /\ CallEnded(fx, FALSE, "returned", "none",
                 check_uri_cache(cacheRows, fx.uri, Real(fx.now)))
    /\ UNCHANGED <<savepoints, cacheRows, durableRows, tmpFiles, ugcFiles, clock>>

\* The process is killed, or the machine stops, in the middle of a fetch:
\* the files stay as they are, the connection is gone and SQLite rolls the
\* open transaction back. Nothing runs afterwards.
Crash ==
    /\ fx.pc \notin {"idle", "killed"}
    /\ fx' = [FxIdle EXCEPT !.pc = "killed"]
    /\ lastCall' = Ended(fx, FALSE, "killed", "none", NoRow)
    /\ savepoints' = <<>>
    /\ cacheRows' = durableRows
    /\ UNCHANGED <<tmpFiles, ugcFiles, durableRows, clock>>

NextFetch ==
    \/ FetchHit /\ UNCHANGED <<foreign_keys, varsMig, varsTab, varsRow, varsDim, varsPages, varsLoad, varsProps>>
    \/ FetchMiss /\ UNCHANGED <<foreign_keys, varsMig, varsTab, varsRow, varsDim, varsPages, varsLoad, varsProps>>
    \/ HttpTimeout /\ UNCHANGED <<foreign_keys, varsMig, varsTab, varsRow, varsDim, varsPages, varsLoad, varsProps>>
    \/ HttpError /\ UNCHANGED <<foreign_keys, varsMig, varsTab, varsRow, varsDim, varsPages, varsLoad, varsProps>>
    \/ HttpResponse /\ UNCHANGED <<foreign_keys, varsMig, varsTab, varsRow, varsDim, varsPages, varsLoad, varsProps>>
    \/ FetchOpenTemp /\ UNCHANGED <<foreign_keys, varsMig, varsTab, varsRow, varsDim, varsPages, varsLoad, varsProps>>
    \/ FetchWriteChunk /\ UNCHANGED <<foreign_keys, varsMig, varsTab, varsRow, varsDim, varsPages, varsLoad, varsProps>>
    \/ FetchStreamError /\ UNCHANGED <<foreign_keys, varsMig, varsTab, varsRow, varsDim, varsPages, varsLoad, varsProps>>
    \/ FetchRenameTmp /\ UNCHANGED <<foreign_keys, varsMig, varsTab, varsRow, varsDim, varsPages, varsLoad, varsProps>>
    \/ FetchInsert /\ UNCHANGED <<foreign_keys, varsMig, varsTab, varsRow, varsDim, varsPages, varsLoad, varsProps>>
    \/ FetchRenameUgc /\ UNCHANGED <<foreign_keys, varsMig, varsTab, varsRow, varsDim, varsPages, varsLoad, varsProps>>
    \/ FetchRelease /\ UNCHANGED <<foreign_keys, varsMig, varsTab, varsRow, varsDim, varsPages, varsLoad, varsProps>>
    \/ FetchReturn /\ UNCHANGED <<foreign_keys, varsMig, varsTab, varsRow, varsDim, varsPages, varsLoad, varsProps>>
    \/ Crash /\ UNCHANGED <<foreign_keys, varsMig, varsTab, varsRow, varsDim, varsPages, varsLoad, varsProps>>

SpecFetch == InitFetch /\ [][NextFetch]_vars

\* C1 as the specification states it, for a first call that found the URI
\* not cached and returned: the two calls issue exactly one network GET
\* between them.
Cex_C1_ExactlyOneGet ==
    (lastCall.again /\ lastCall.gets_before > 0) =>
        lastCall.gets_before + lastCall.gets = 1

\* C1 (amended): when fetch_uri is called twice in a row for one URI and the
\* first call returns, the second call is a cache hit that issues no network
\* GET and returns the entry the first call returned (timestamp, status,
\* content-type, content-length, filename); a call that returns has issued
\* no GET if it found the URI cached, and otherwise one GET per attempt,
\* that is one more than the timeouts it met.
Thm_C1_SecondCallIsCacheHit ==
    /\ lastCall.again =>
          /\ lastCall.outcome = "returned"
          /\ lastCall.hit
          /\ lastCall.gets = 0
          /\ lastCall.entry = lastCall.entry_before
          /\ lastCall.entry # NoRow
    /\ lastCall.outcome = "returned" =>
          lastCall.gets = (IF lastCall.hit THEN 0 ELSE lastCall.timeouts + 1)

\* A first call that met no timeout fetched and stored a two-byte response,
\* and the second call returned the stored entry without a GET.
Wit_C1_FetchedThenHit ==
    /\ lastCall.again
    /\ lastCall.gets_before = 1
    /\ lastCall.hit
    /\ lastCall.gets = 0
    /\ lastCall.entry = lastCall.entry_before
    /\ lastCall.entry["content-length"] = Integer(2)
    /\ \E r \in cacheRows : r.uri = lastCall.uri /\ r.timestamp = lastCall.entry["timestamp"]

(***************************************************************************)
(* Schema migration manager.                                               *)
(***************************************************************************)
\* Bound: how many steps beyond NumSteps a newer program may have applied
\* to a store this program is then run against.
MaxFuture == 2

Versions == 0..(NumSteps + MaxFuture)

\* db_meta_get("schema_version"): the stored value, None when there is no
\* row, and sqlite3.OperationalError when db_meta does not exist.
db_meta_get(objs, m) ==
    IF MetaStep \notin objs THEN "OperationalError"
    ELSE IF m = <<>> THEN "None"
    ELSE "value"

database_version_noMeta1(objs, m) ==
    IF db_meta_get(objs, m) = "OperationalError" THEN 1
    ELSE IF db_meta_get(objs, m) = "None" THEN 1
    ELSE m[1]

database_version(objs, m) ==
    IF db_meta_get(objs, m) = "OperationalError" THEN 0
    ELSE IF db_meta_get(objs, m) = "None" THEN 1
    ELSE m[1]

\* db_schema[old_version:] as the list of step indices it holds.
PendingSteps_skipFirst(old_version, new_version) == Interval(old_version + 1, new_version)

PendingSteps(old_version, new_version) == Interval(old_version, new_version)

\* "if (old_version > new_version): raise AssertionError".
IsDowngrade_off(old_version, new_version) == FALSE

IsDowngrade(old_version, new_version) == old_version > new_version

\* db_meta_set("schema_version", value): DELETE then INSERT inside its own
\* savepoint; the value written.
db_meta_set_previous(value) == <<value - 1>>

db_meta_set(value) == <<value>>

\* c.execute(s) for s = db_schema[k]: a CREATE of an object that exists
\* raises unless the statement says IF NOT EXISTS.
StepRaises(objs, k) == k \in objs /\ k # CacheStep

\* What an upgrade_database call finds: the store, and the call before it
\* (UpgIdle when the previous operation was not upgrade_database).
Entry == [objects |-> objects, meta |-> meta, savepoints |-> savepoints,
          applied |-> applied, prev |-> upg, purge |-> purged]

\* Rows a loader run leaves in the two modelled tables, and fetch_uri in
\* the cache index.
LoadedDimRows ==
    {[c \in DimColumns |-> CASE c = "dataset" -> D1
                              [] c = "dimension" -> Area
                              [] c = "dimension_index" -> Integer(0)
                              [] OTHER -> NULL]}

LoadedInfoRows ==
    {[c \in InfoColumns |-> CASE c = "dataset" -> D1
                               [] c = "dimension_index" -> Integer(0)
                               [] c = "lang" -> Str(<<"en-gb">>)
                               [] OTHER -> Area]}

CachedRows ==
    {CacheRow(u, Real(0), [status |-> 200, body |-> <<"a">>, headers |-> StoredHeaders],
              hexdigest(<<"a">>)) : u \in URIs}

\* A store left by a program that knew v steps (v = 0: a new, empty file),
\* with or without loaded rows and cached fetches, on a connection that
\* initialise() opened; a loader that raised has left its savepoint open.
InitMig ==
    /\ \E v \in Versions :
        /\ objects = 0..(v - 1)
        /\ meta = IF v = 0 THEN <<>> ELSE <<v>>
        /\ applied = v
    /\ savepoints \in {<<>>, <<"load_dataset_collections">>}
    /\ MigIdle
    /\ dimTable \in {{}} \cup {LoadedDimRows : x \in {DimStep} \cap objects}
    /\ infoTable \in {{}} \cup {LoadedInfoRows : x \in {InfoStep} \cap objects}
    /\ counters = make_autoincrement(0)
    /\ cacheRows \in {{}} \cup {CachedRows : x \in {CacheStep} \cap objects}
    /\ tmpFiles = {}
    /\ ugcFiles = {File(r["filename"], <<"a">>) : r \in cacheRows}
    /\ durableRows = cacheRows
    /\ clock = 0
    /\ fx = FxIdle
    /\ lastCall = NoFetch
    /\ RowIdle
    /\ PagesIdle
    /\ LoadAllIdle
    /\ PropsIdle
    /\ DimIdle

\* upgrade_database, up to and including SAVEPOINT upgrade_database.
UpgradeBegin ==
    /\ upg.pc \in {"idle", "returned", "raised"}
    /\ LET old_version == database_version(objects, meta)
           new_version == NumSteps
       IN  /\ before' = Entry
           /\ purged' = NoPurge
           /\ IF IsDowngrade(old_version, new_version)
              THEN /\ upg' = [UpgIdle EXCEPT !.pc = "raised", !.old_version = old_version]
                   /\ UNCHANGED savepoints
              ELSE IF old_version < new_version
              THEN /\ upg' = [UpgIdle EXCEPT !.pc = "steps", !.old_version = old_version,
                                             !.todo = PendingSteps(old_version, new_version),
                                             !.opened = 1]
                   /\ savepoints' = Savepoint(savepoints, "upgrade_database")
              ELSE /\ upg' = [UpgIdle EXCEPT !.pc = "returned", !.old_version = old_version]
                   /\ UNCHANGED savepoints
    /\ UNCHANGED <<objects, meta, applied>>

\* The schema_version row if the loop recorded every step as it went.
RecordedAfterStep_eachStep(m, k) == <<k + 1>>

\* The schema_version row after a turn of the loop over the steps: the
\* loop body is c.execute(s) and nothing else.
RecordedAfterStep(m, k) == m

\* One turn of "for s in db_schema[old_version:]: c.execute(s)".
UpgradeStep ==
    /\ upg.pc = "steps"
    /\ upg.todo # <<>>
    /\ LET k == Head(upg.todo)
       IN  IF StepRaises(objects, k)
           THEN /\ upg' = [upg EXCEPT !.pc = "raised"]
                /\ UNCHANGED <<objects, applied, meta>>
           ELSE /\ objects' = objects \cup {k}
                /\ applied' = applied + 1
                /\ meta' = RecordedAfterStep(meta, k)
                /\ upg' = [upg EXCEPT !.todo = Tail(upg.todo),
                                      !.executed = Append(upg.executed, k)]
    /\ UNCHANGED <<savepoints, before, purged>>

\* db_meta_set("schema_version", new_version); RELEASE upgrade_database.
UpgradeRecord ==
    /\ upg.pc = "steps"
    /\ upg.todo = <<>>
    /\ IF MetaStep \notin objects
       THEN /\ upg' = [upg EXCEPT !.pc = "raised"]
            /\ UNCHANGED <<meta, savepoints>>
       ELSE /\ meta' = db_meta_set(NumSteps)
            /\ savepoints' = Release(Release(Savepoint(savepoints, "db_meta_set"),
                                             "db_meta_set"), "upgrade_database")
            /\ upg' = [upg EXCEPT !.pc = "returned", !.metaWrites = upg.metaWrites + 1,
                                  !.opened = upg.opened + 1]
    /\ UNCHANGED <<objects, applied, before, purged>>

\* purge_database up to the first DROP: the refusal inside a transaction,
\* then PRAGMA foreign_keys = OFF and SAVEPOINT purge_database.
purge_prologue_pragmaFirst(sp, fk) ==
    IF in_transaction(sp)
    THEN [raised |-> TRUE, foreign_keys |-> FALSE, savepoints |-> sp]
    ELSE [raised |-> FALSE, foreign_keys |-> FALSE,
          savepoints |-> Savepoint(sp, "purge_database")]

purge_prologue(sp, fk) ==
    IF in_transaction(sp)
    THEN [raised |-> TRUE, foreign_keys |-> fk, savepoints |-> sp]
    ELSE [raised |-> FALSE, foreign_keys |-> FALSE,
          savepoints |-> Savepoint(sp, "purge_database")]

\* The tables the first SELECT ... FROM sqlite_master of purge_database
\* returns (every table but spider_uri_cache), and the views the second one
\* returns. Objects of a later program version are tables or views.
PurgedTables_all(objs) == {k \in objs : k \in SchemaTables \/ k >= NumSteps}

PurgedTables(objs) == {k \in objs : (k \in SchemaTables \/ k >= NumSteps) /\ k # CacheStep}

PurgedViews(objs) == objs \cap SchemaViews

\* DROP TABLE removes the table, its rows and its indexes.
DropTables(objs, dropped) ==
    objs \ (dropped \cup {k \in SchemaIndexes : IndexedTable(k) \in dropped})

\* What the store holds when purge_database is called.
PurgeEntry(outcome) ==
    [outcome |-> outcome, objects |-> objects, savepoints |-> savepoints,
     foreign_keys |-> foreign_keys, cacheRows |-> cacheRows,
     dimTable |-> dimTable, infoTable |-> infoTable]

\* purge_database: refuses inside a transaction; otherwise drops every table
\* but spider_uri_cache (their indexes go with them) and every view, turns
\* foreign keys back on, commits and VACUUMs.
purge_database ==
    /\ upg.pc \in {"idle", "returned", "raised"}
    /\ LET pro == purge_prologue(savepoints, foreign_keys)
           tables == PurgedTables(objects)
           remaining == DropTables(objects, tables) \ PurgedViews(objects)
       IN  IF pro.raised
           THEN /\ purged' = PurgeEntry("raised")
                /\ foreign_keys' = pro.foreign_keys
                /\ savepoints' = pro.savepoints
                /\ UNCHANGED <<objects, meta, applied, dimTable, infoTable, cacheRows,
                               durableRows>>
           ELSE /\ purged' = PurgeEntry("returned")
                /\ objects' = remaining
                /\ meta' = IF MetaStep \in remaining THEN meta ELSE <<>>
                /\ dimTable' = IF DimStep \in remaining THEN dimTable ELSE {}
                /\ infoTable' = IF InfoStep \in remaining THEN infoTable ELSE {}
                /\ cacheRows' = IF CacheStep \in tables THEN {} ELSE cacheRows
                /\ durableRows' = cacheRows'
                /\ applied' = 0
                /\ foreign_keys' = TRUE
                /\ savepoints' = Release(pro.savepoints, "purge_database")
    /\ upg' = UpgIdle
    /\ UNCHANGED <<before, counters, tmpFiles, ugcFiles, clock, fx, lastCall>>

NextMig ==
    \/ UpgradeBegin /\ UNCHANGED <<foreign_keys, varsTab, varsRow, varsDim, varsFetch, varsPages, varsLoad, varsProps>>
    \/ UpgradeStep /\ UNCHANGED <<foreign_keys, varsTab, varsRow, varsDim, varsFetch, varsPages, varsLoad, varsProps>>
    \/ UpgradeRecord /\ UNCHANGED <<foreign_keys, varsTab, varsRow, varsDim, varsFetch, varsPages, varsLoad, varsProps>>
    \/ purge_database /\ UNCHANGED <<varsRow, varsDim, varsPages, varsLoad, varsProps>>

SpecMig == InitMig /\ [][NextMig]_vars

\* c.execute(s) raises for a reason outside the schema (sqlite3's
\* OperationalError: the disk is full, the file is locked by another
\* process, the SQLite library does not know the statement): the exception
\* leaves the loop and upgrade_database, which has no except clause.
UpgradeStepFails ==
    /\ upg.pc = "steps"
    /\ upg.todo # <<>>
    /\ upg' = [upg EXCEPT !.pc = "raised"]
    /\ UNCHANGED <<objects, meta, applied, savepoints, before, purged>>

\* Bound: the savepoints a connection has open at once, those that calls
\* which raised have left behind included.
MaxDepth == 3

\* The migration manager on a store whose statements can fail.
NextMigFail ==
    \/ (Len(savepoints) < MaxDepth /\ UpgradeBegin) /\ UNCHANGED <<foreign_keys, varsTab, varsRow, varsDim, varsFetch, varsPages, varsLoad, varsProps>>
    \/ UpgradeStep /\ UNCHANGED <<foreign_keys, varsTab, varsRow, varsDim, varsFetch, varsPages, varsLoad, varsProps>>
    \/ UpgradeRecord /\ UNCHANGED <<foreign_keys, varsTab, varsRow, varsDim, varsFetch, varsPages, varsLoad, varsProps>>
    \/ purge_database /\ UNCHANGED <<varsRow, varsDim, varsPages, varsLoad, varsProps>>
    \/ UpgradeStepFails /\ UNCHANGED <<foreign_keys, varsTab, varsRow, varsDim, varsFetch, varsPages, varsLoad, varsProps>>

SpecMigFail == InitMig /\ [][NextMigFail]_vars

\* The version database_version() reports for the store as it is now.
CurrentVersion == database_version(objects, meta)

\* No upgrade_database call is between its first and its last statement.
MigQuiet == upg.pc \in {"idle", "returned", "raised"}

\* C7 (migration idempotence): an upgrade_database call that directly follows
\* one that returned returns too, leaves the schema objects and the recorded
\* schema_version as the first call left them, executes no schema statement
\* and does not write the version counter.
Thm_C7_UpgradeTwice ==
    (upg.pc # "idle" /\ before.prev.pc = "returned") =>
        /\ upg.pc = "returned"
        /\ objects = before.objects
        /\ meta = before.meta
        /\ upg.executed = <<>>
        /\ upg.metaWrites = 0

\* The second of two calls has returned, and the first one did apply steps.
Wit_C7_SecondCallAfterRealUpgrade ==
    /\ upg.pc = "returned"
    /\ before.prev.pc = "returned"
    /\ before.prev.executed # <<>>
    /\ meta = <<NumSteps>>

\* C8 (migration monotonicity): called on a store with V <= len(db_schema)
\* steps applied, upgrade_database never raises, never lets the reported
\* version drop below V, executes the steps V, V+1, ... in list order, each
\* once, and returns with schema_version = len(db_schema) having executed
\* exactly the steps V .. len(db_schema)-1.
Thm_C8_UpgradeMonotone ==
    (upg.pc # "idle" /\ before.applied <= NumSteps) =>
        /\ upg.pc # "raised"
        /\ CurrentVersion >= before.applied
        /\ upg.executed \o upg.todo = Interval(before.applied, NumSteps)
        /\ upg.pc = "returned" =>
              /\ meta = <<NumSteps>>
              /\ CurrentVersion = NumSteps
              /\ upg.executed = Interval(before.applied, NumSteps)

\* An upgrade from a version strictly between 0 and len(db_schema) returned.
Wit_C8_UpgradedFromMiddle ==
    /\ upg.pc = "returned"
    /\ before.applied > 0
    /\ before.applied < NumSteps
    /\ Len(upg.executed) = NumSteps - before.applied

\* C9 (no downgrade): called on a store whose version exceeds
\* len(db_schema), upgrade_database raises and leaves the store as it was:
\* no schema statement executed, no savepoint opened, no version written.
Thm_C9_DowngradeRefused ==
    (upg.pc # "idle" /\ before.applied > NumSteps) =>
        /\ upg.pc = "raised"
        /\ objects = before.objects
        /\ meta = before.meta
        /\ savepoints = before.savepoints
        /\ upg.opened = 0
        /\ upg.executed = <<>>
        /\ upg.metaWrites = 0

\* upgrade_database has raised on a store newer than the program.
Wit_C9_RaisedOnNewerStore ==
    /\ upg.pc = "raised"
    /\ before.applied > NumSteps
    /\ meta = <<before.applied>>

\* C10 (current version): between upgrade_database calls, database_version()
\* is the number of migration steps applied to the store since it was created
\* or purged, and it is 0 exactly when the db_meta table does not exist.
Thm_C10_VersionIsStepsApplied ==
    MigQuiet =>
        /\ CurrentVersion = applied
        /\ (CurrentVersion = 0) <=> (MetaStep \notin objects)

\* A purged store (only spider_uri_cache left, version 0) has been upgraded
\* and reports len(db_schema).
Wit_C10_UpgradedPurgedStore ==
    /\ upg.pc = "returned"
    /\ before.objects = {CacheStep}
    /\ database_version(before.objects, before.meta) = 0
    /\ CurrentVersion = NumSteps

\* C11 (purge frame): a purge_database call that returns leaves no table and
\* no view but spider_uri_cache and leaves every cache index row as it was;
\* an upgrade_database call that directly follows it returns with the store
\* at version len(db_schema), every step of db_schema applied, the cache
\* index rows still as they were before the purge and no row in any table
\* other than spider_uri_cache and db_meta.
Thm_C11_PurgeThenUpgrade ==
    /\ purged.outcome = "returned" =>
          /\ objects = purged.objects \cap {CacheStep}
          /\ cacheRows = purged.cacheRows
          /\ dimTable = {} /\ infoTable = {}
          /\ CurrentVersion = 0
    /\ (upg.pc # "idle" /\ before.purge.outcome = "returned") =>
          /\ upg.pc # "raised"
          /\ cacheRows = before.purge.cacheRows
          /\ dimTable = {} /\ infoTable = {}
          /\ upg.pc = "returned" =>
                /\ CurrentVersion = NumSteps
                /\ objects = 0..(NumSteps - 1)

\* A store with loaded rows and cached fetches was purged and upgraded.
Wit_C11_LoadedStorePurgedAndUpgraded ==
    /\ upg.pc = "returned"
    /\ before.purge.outcome = "returned"
    /\ before.purge.dimTable # {}
    /\ before.purge.infoTable # {}
    /\ before.purge.cacheRows # {}
    /\ cacheRows = before.purge.cacheRows
    /\ CurrentVersion = NumSteps

\* C12 (purge refused inside a transaction): called while a savepoint is
\* open, purge_database raises and drops nothing: the schema objects, the
\* rows, the open savepoints and the foreign-key setting are as it found
\* them; and it raises only then.
Thm_C12_PurgeRefusedInTransaction ==
    /\ (purged.outcome # "none" /\ in_transaction(purged.savepoints)) =>
          /\ purged.outcome = "raised"
          /\ objects = purged.objects
          /\ dimTable = purged.dimTable /\ infoTable = purged.infoTable
          /\ cacheRows = purged.cacheRows
          /\ savepoints = purged.savepoints
          /\ foreign_keys = purged.foreign_keys
    /\ purged.outcome = "raised" => in_transaction(purged.savepoints)

\* purge_database was refused on a fully upgraded store holding rows.
Wit_C12_RefusedOnLoadedStore ==
    /\ purged.outcome = "raised"
    /\ in_transaction(savepoints)
    /\ objects = 0..(NumSteps - 1)
    /\ dimTable # {}
    /\ foreign_keys

\* The smaller of two numbers.
Min(a, b) == IF a < b THEN a ELSE b

\* C13 (retry backoff): the timeout of the n-th attempt of a fetch (n from
\* 0) and the sleep that follows it when it times out are both
\* min(64 * 2^n, retry_max) seconds, and so never exceed retry_max.
Thm_C13_BackoffDoublesToCap ==
    /\ fx.pc = "get" =>
          /\ fx.retry_interval = Min(InitialRetryInterval * 2^(fx.timeouts), retry_max)
          /\ fx.retry_interval <= retry_max
    /\ \A n \in 0..(Len(fx.slept) - 1) :
          /\ fx.slept[n + 1] = Min(InitialRetryInterval * 2^n, retry_max)
          /\ fx.slept[n + 1] <= retry_max

\* A fetch has timed out often enough for the cap to replace the doubled
\* interval: 64 * 2^4 = 1024 > 512.
Wit_C13_CapReached ==
    /\ fx.pc = "get"
    /\ fx.timeouts >= 4
    /\ InitialRetryInterval * 2^(fx.timeouts) > retry_max
    /\ fx.retry_interval = retry_max
    /\ Len(fx.slept) = fx.timeouts

\* C14 (no give-up on timeouts): an attempt that times out never ends the
\* fetch, whatever the number of timeouts before it: the call stays in its
\* retry loop, with the same URI, one more request made and no call outcome
\* recorded; the only error that leaves the loop is an exception other than
\* a timeout; and an attempt that receives a response leaves the loop with
\* that response and goes on to write it to the staging file (a process
\* killed from outside is not the fetch giving up).
Thm_C14_TimeoutsNeverEndFetch ==
    [][/\ fx'.timeouts > fx.timeouts =>
             /\ fx.pc = "get" /\ fx'.pc = "get"
             /\ fx'.uri = fx.uri
             /\ fx'.gets = fx.gets + 1
             /\ lastCall' = lastCall
       /\ (fx.pc = "get" /\ fx'.pc = "idle") =>
             /\ lastCall'.outcome = "raised"
             /\ lastCall'.error = "RequestException"
             /\ lastCall'.timeouts = fx.timeouts
       /\ (fx.pc = "get" /\ fx'.pc \notin {"get", "idle", "killed"}) =>
             /\ fx'.pc = "open"
             /\ fx'.response \in Responses
             /\ fx'.timeouts = fx.timeouts
             /\ fx'.gets = fx.gets + 1]_vars

\* A fetch that timed out as often as the model lets it, past the point
\* where the interval stops growing, received a response, stored it and
\* returned its cache entry.
Wit_C14_ReturnedAfterManyTimeouts ==
    /\ lastCall.outcome = "returned"
    /\ ~lastCall.hit
    /\ lastCall.timeouts = MaxTimeouts
    /\ lastCall.gets = MaxTimeouts + 1
    /\ lastCall.entry # NoRow
    /\ Exists(ugcFiles, lastCall.entry["filename"])

\* The cache index rows of other URIs whose stored blob is byte for byte the
\* body the last call received.
SameBodyRows ==
    {r \in cacheRows : /\ r["uri"] # lastCall.uri
                       /\ Exists(ugcFiles, r["filename"])
                       /\ ContentOf(ugcFiles, r["filename"]) = lastCall.body}

AllFiles(tmp, ugc) == tmp \cup ugc

\* C16 (atomic durability): at every point of a fetch, and after the process
\* was killed at any step, every file of tmp/ or ugc/ with a name other than
\* temp-<pid> is named by the digest of its content, and every step that
\* makes such a file appear does so when the whole body of the response has
\* been written, with that body as content; so a partly written body is
\* only ever found under temp-<pid>.
Thm_C16_DigestNamedFilesAreComplete ==
    /\ [](\A f \in AllFiles(tmpFiles, ugcFiles) :
             f.name # TempName => f.name = hexdigest(f.content))
    /\ [][\A f \in AllFiles(tmpFiles', ugcFiles') \ AllFiles(tmpFiles, ugcFiles) :
             f.name # TempName =>
                /\ f.content = fx.response.body
                /\ fx.written = Len(fx.response.body)
                /\ f.name = hexdigest(fx.response.body)]_vars

\* The process was killed while the staging file held a part of the body,
\* after an earlier fetch had stored its blob: the part is under temp-<pid>
\* and the blob under its digest.
Wit_C16_KilledWithPartialBody ==
    /\ fx.pc = "killed"
    /\ Exists(tmpFiles, TempName)
    /\ ContentOf(tmpFiles, TempName) # <<>>
    /\ Len(ContentOf(tmpFiles, TempName)) < Len(lastCall.body)
    /\ ugcFiles # {}
    /\ \A f \in AllFiles(tmpFiles, ugcFiles) \ {File(TempName, ContentOf(tmpFiles, TempName))} :
          f.name = hexdigest(f.content)

(***************************************************************************)
(* load_json_pages: the walk.                                              *)
(***************************************************************************)
\* load_json_pages(local_file, cursor, insert_procs) is called with the
\* cache entry of the first page.
InitPages ==
    /\ \E feed \in Feeds, n \in 1..MaxProcs :
          pj = [PjIdle EXCEPT !.pc = "open", !.feed = feed, !.insert_procs = n,
                              !.at = 1, !.more = TRUE]
    /\ applications = <<>>
    /\ LoadAllIdle
    /\ PropsIdle
    /\ TablesEmpty
    /\ RowIdle
    /\ DimIdle
    /\ FetchIdle
    /\ savepoints = <<"load_odata_catalogue">>
    /\ objects = 0..(NumSteps - 1)
    /\ meta = <<NumSteps>>
    /\ applied = NumSteps
    /\ MigIdle

\* The head of the while loop: the mime-type check, json.load, "value" and
\* "odata.nextLink".
PageOpen ==
    /\ pj.pc = "open"
    /\ LET local_file == pj.feed[pj.at]
           content_type == parse_content_type(local_file.content_type)
       IN  IF content_type.error # "none"
           THEN pj' = [pj EXCEPT !.pc = "raised", !.error = content_type.error]
           ELSE IF ~ExpectedMimeType(content_type.mime_type)
           THEN pj' = [pj EXCEPT !.pc = "raised", !.error = "AssertionError"]
           ELSE pj' = [pj EXCEPT !.pc = "procs", !.value = local_file.value,
                                 !.more = pj.at < Len(pj.feed), !.p = 1, !.v = 1]
    /\ UNCHANGED applications

\* "for p in insert_procs: for v in value": the position after (p, v).
LoopAdvance_itemsOuter(p, v, nprocs, nitems) ==
    IF p < nprocs THEN [p |-> p + 1, v |-> v]
    ELSE IF v < nitems THEN [p |-> 1, v |-> v + 1]
    ELSE [p |-> nprocs + 1, v |-> 1]

LoopAdvance(p, v, nprocs, nitems) ==
    IF v < nitems THEN [p |-> p, v |-> v + 1] ELSE [p |-> p + 1, v |-> 1]

\* Both for loops have run out.
LoopDone == pj.value = <<>> \/ pj.p > pj.insert_procs

\* "p(cursor, v)" returns.
PageApply ==
    /\ pj.pc = "procs"
    /\ ~LoopDone
    /\ applications' = Append(applications,
                              [page |-> pj.at, proc |-> pj.p, item |-> pj.value[pj.v]])
    /\ LET next == LoopAdvance(pj.p, pj.v, pj.insert_procs, Len(pj.value))
       IN  pj' = [pj EXCEPT !.p = next.p, !.v = next.v]

\* "p(cursor, v)" raises (IntegrityError from INSERT, AssertionError from
\* CHECK_ROW): the exception leaves load_json_pages.
PageApplyRaises ==
    /\ pj.pc = "procs"
    /\ ~LoopDone
    /\ pj' = [pj EXCEPT !.pc = "raised", !.error = "ProcedureError"]
    /\ UNCHANGED applications

\* "if (more): local_file = fetch_uri(more)", and round the while loop.
PageFollow ==
    /\ pj.pc = "procs"
    /\ LoopDone
    /\ pj.more
    /\ pj' = [pj EXCEPT !.pc = "open", !.at = @ + 1, !.fetched = Append(@, pj.at + 1)]
    /\ UNCHANGED applications

\* fetch_uri(more) raises.
PageFollowRaises ==
    /\ pj.pc = "procs"
    /\ LoopDone
    /\ pj.more
    /\ pj' = [pj EXCEPT !.pc = "raised", !.error = "FetchError"]
    /\ UNCHANGED applications

\* "while (more)" ends: the page had no odata.nextLink.
PageReturn ==
    /\ pj.pc = "procs"
    /\ LoopDone
    /\ ~pj.more
    /\ pj' = [pj EXCEPT !.pc = "returned"]
    /\ UNCHANGED applications

NextPages ==
    \/ PageOpen /\ UNCHANGED <<varsConn, varsMig, varsTab, varsRow, varsDim, varsFetch, varsLoad, varsProps>>
    \/ PageApply /\ UNCHANGED <<varsConn, varsMig, varsTab, varsRow, varsDim, varsFetch, varsLoad, varsProps>>
    \/ PageApplyRaises /\ UNCHANGED <<varsConn, varsMig, varsTab, varsRow, varsDim, varsFetch, varsLoad, varsProps>>
    \/ PageFollow /\ UNCHANGED <<varsConn, varsMig, varsTab, varsRow, varsDim, varsFetch, varsLoad, varsProps>>
    \/ PageFollowRaises /\ UNCHANGED <<varsConn, varsMig, varsTab, varsRow, varsDim, varsFetch, varsLoad, varsProps>>
    \/ PageReturn /\ UNCHANGED <<varsConn, varsMig, varsTab, varsRow, varsDim, varsFetch, varsLoad, varsProps>>

SpecPages == InitPages /\ [][NextPages]_vars

\* s is an initial part of t.
IsPrefix(s, t) == Len(s) <= Len(t) /\ SubSeq(t, 1, Len(s)) = s

\* One procedure over the items of a page, in document order.
OneProcedure(page, proc, value) ==
    [v \in 1..Len(value) |-> [page |-> page, proc |-> proc, item |-> value[v]]]

\* Procedures 1..n over a page, one after the other.
RECURSIVE AllProcedures(_, _, _)
AllProcedures(page, n, value) ==
    IF n = 0 THEN <<>>
    ELSE AllProcedures(page, n - 1, value) \o OneProcedure(page, n, value)

\* Pages 1..k of a feed, one after the other.
RECURSIVE AllPages(_, _, _)
AllPages(feed, k, n) ==
    IF k = 0 THEN <<>>
    ELSE AllPages(feed, k - 1, n) \o AllProcedures(k, n, feed[k].value)

\* C17 (paginated walk): at every point of a load_json_pages call the
\* applications made so far are an initial part of: pages in nextLink order,
\* on each page the procedures in list order, each procedure over the
\* page's items in document order; the pages fetched so far are the second,
\* third, ... in order, each once; and when the call returns, every
\* procedure has been applied to every item of every page exactly once in
\* that order, every page after the first was fetched exactly once, and the
\* last page read had no nextLink.
Thm_C17_PagesProcsItemsInOrder ==
    pj.pc # "idle" =>
        /\ IsPrefix(applications, AllPages(pj.feed, Len(pj.feed), pj.insert_procs))
        /\ pj.fetched = Interval(2, pj.at + 1)
        /\ pj.pc = "returned" =>
              /\ applications = AllPages(pj.feed, Len(pj.feed), pj.insert_procs)
              /\ pj.fetched = Interval(2, Len(pj.feed) + 1)
              /\ pj.at = Len(pj.feed)
              /\ ~pj.more

\* The two-page feed (A, B then C) walked with one procedure: three
\* applications, A, B, C, and one fetch, of the second page.
Wit_C17_TwoPagesABThenC ==
    /\ pj.pc = "returned"
    /\ pj.insert_procs = 1
    /\ Len(pj.feed) = 2
    /\ pj.feed[1].value = <<1, 2>>
    /\ pj.feed[2].value = <<3>>
    /\ [i \in 1..Len(applications) |-> applications[i].item] = <<1, 2, 3>>
    /\ pj.fetched = <<2>>

(***************************************************************************)
(* load_all: the run.                                                      *)
(***************************************************************************)
MaxLoaded == 1

\* main(): initialise() has opened the connection and upgraded the store,
\* and load_all() is called.
InitLoad ==
    /\ la = [LaIdle EXCEPT !.pc = "call", !.k = 1]
    /\ loaded = [n \in LoaderNames |-> 0]
    /\ committed = [n \in LoaderNames |-> 0]
    /\ calls = <<>>
    /\ PagesIdle
    /\ PropsIdle
    /\ TablesEmpty
    /\ RowIdle
    /\ DimIdle
    /\ FetchIdle
    /\ savepoints = <<>>
    /\ objects = 0..(NumSteps - 1)
    /\ meta = <<NumSteps>>
    /\ applied = NumSteps
    /\ MigIdle

\* The loader load_all is in.
Loader == load_all[la.k]

\* The database file after RELEASE: releasing the outermost savepoint
\* commits what the connection wrote.
AfterRelease_noCommit(sp, written, durable) == durable

AfterRelease(sp, written, durable) == IF in_transaction(sp) THEN durable ELSE written

\* load_all calls the next loader: "SAVEPOINT <loader>".
LoaderBegin ==
    /\ la.pc = "call"
    /\ savepoints' = Savepoint(savepoints, Loader)
    /\ calls' = Append(calls, [event |-> "start", loader |-> Loader, rows |-> 0])
    /\ la' = [la EXCEPT !.pc = "english"]
    /\ UNCHANGED <<loaded, committed>>

\* The English pass of a loader: fetch, walk the pages, INSERT. It writes
\* some rows and goes on, or an exception (from fetch_uri, a converter or
\* INSERT) leaves the loader after some rows.
LoaderEnglish ==
    /\ la.pc = "english"
    /\ \E n \in 0..MaxLoaded, raises \in BOOLEAN :
          /\ loaded' = [loaded EXCEPT ![Loader] = n]
          /\ la' = IF raises THEN [la EXCEPT !.pc = "raised", !.error = "Exception"]
                    ELSE [la EXCEPT !.pc = "welsh"]
    /\ UNCHANGED <<savepoints, committed, calls>>

\* The Welsh pass of a loader and what follows it: CHECK_ROW against the
\* English rows and INSERT of the Welsh texts. It may write more rows and
\* goes on, or AssertionError (or another exception) leaves the loader.
LoaderWelsh ==
    /\ la.pc = "welsh"
    /\ \E n \in loaded[Loader]..MaxLoaded, raises \in BOOLEAN :
          /\ loaded' = [loaded EXCEPT ![Loader] = n]
          /\ la' = IF raises THEN [la EXCEPT !.pc = "raised", !.error = "AssertionError"]
                    ELSE [la EXCEPT !.pc = "release"]
    /\ UNCHANGED <<savepoints, committed, calls>>

\* "RELEASE <loader>", and back in load_all: the next call, or the end.
LoaderRelease ==
    /\ la.pc = "release"
    /\ savepoints' = Release(savepoints, Loader)
    /\ committed' = AfterRelease(savepoints', loaded, committed)
    /\ calls' = Append(calls, [event |-> "end", loader |-> Loader, rows |-> loaded[Loader]])
    /\ la' = IF la.k < Len(load_all) THEN [la EXCEPT !.pc = "call", !.k = @ + 1]
              ELSE [la EXCEPT !.pc = "returned"]
    /\ UNCHANGED loaded

\* main() returns, or the exception leaves it: the interpreter exits, with
\* a traceback and a failure status after an exception; the connection is
\* closed and SQLite rolls back what was not committed.
ProcessExit ==
    /\ la.pc \in {"returned", "raised"}
    /\ la' = [la EXCEPT !.pc = "exited",
                         !.status = IF la.pc = "raised" THEN "error" ELSE "success"]
    /\ savepoints' = <<>>
    /\ loaded' = committed
    /\ UNCHANGED <<committed, calls>>

NextLoad ==
    \/ LoaderBegin /\ UNCHANGED <<foreign_keys, varsMig, varsTab, varsRow, varsDim, varsFetch, varsPages, varsProps>>
    \/ LoaderEnglish /\ UNCHANGED <<foreign_keys, varsMig, varsTab, varsRow, varsDim, varsFetch, varsPages, varsProps>>
    \/ LoaderWelsh /\ UNCHANGED <<foreign_keys, varsMig, varsTab, varsRow, varsDim, varsFetch, varsPages, varsProps>>
    \/ LoaderRelease /\ UNCHANGED <<foreign_keys, varsMig, varsTab, varsRow, varsDim, varsFetch, varsPages, varsProps>>
    \/ ProcessExit /\ UNCHANGED <<foreign_keys, varsMig, varsTab, varsRow, varsDim, varsFetch, varsPages, varsProps>>

SpecLoad == InitLoad /\ [][NextLoad]_vars

\* The loaders started so far, in the order they were started.
RECURSIVE StartedIn(_)
StartedIn(log) ==
    IF log = <<>> THEN <<>>
    ELSE IF Head(log).event = "start" THEN <<Head(log).loader>> \o StartedIn(Tail(log))
    ELSE StartedIn(Tail(log))

\* The places in the log where a loader was started and where it completed.
StartOf(n) == {i \in 1..Len(calls) : calls[i].event = "start" /\ calls[i].loader = n}
EndOf(n) == {i \in 1..Len(calls) : calls[i].event = "end" /\ calls[i].loader = n}

\* The dependencies between loaders: collections before all others,
\* properties before dataset-dimensions, dimension-types before
\* dimension-items, dataset-dimensions before dataset-dimension-items.
DependsOn ==
    {<<n, "load_dataset_collections">> : n \in LoaderNames \ {"load_dataset_collections"}}
    \cup {<<"load_odata_dataset_dimensions", "load_dataset_properties">>,
          <<"load_odata_dimension_items", "load_odata_dimension_types">>,
          <<"load_odata_dataset_dimension_items", "load_odata_dataset_dimensions">>}

\* C18 (loader order): the loaders load_all has started so far are the
\* first ones of its one fixed list of eight, in list order and each once,
\* a loader is started only when every loader before it has completed, and
\* whenever a loader has been started every loader it depends on completed
\* before that start.
Thm_C18_LoadersInDependencyOrder ==
    /\ Len(load_all) = 8
    /\ IsPrefix(StartedIn(calls), load_all)
    /\ \A n \in LoaderNames : Cardinality(StartOf(n)) <= 1 /\ Cardinality(EndOf(n)) <= 1
    /\ \A d \in DependsOn :
          \A i \in StartOf(d[1]) : \E j \in EndOf(d[2]) : j < i

\* load_all has returned: all eight loaders were started and completed.
Wit_C18_AllEightCompleted ==
    /\ la.pc = "returned"
    /\ StartedIn(calls) = load_all
    /\ \A n \in LoaderNames : EndOf(n) # {}
    /\ \A n \in LoaderNames : committed[n] = MaxLoaded

\* C19 (failure of the k-th loader): when the k-th loader has raised, and
\* after the process has then ended, every loader before it has completed
\* and the rows it wrote are committed in the store, no loader after it was
\* started, load_all has not returned, and the process ends with the error
\* and not with success.
Thm_C19_EarlierLoadersStayCommitted ==
    (la.error # "none") =>
        /\ la.pc \in {"raised", "exited"}
        /\ la.pc = "exited" => la.status = "error"
        /\ \A j \in 1..(la.k - 1) :
              /\ EndOf(load_all[j]) # {}
              /\ \A i \in EndOf(load_all[j]) : committed[load_all[j]] = calls[i].rows
        /\ EndOf(load_all[la.k]) = {}
        /\ \A j \in (la.k + 1)..Len(load_all) : StartOf(load_all[j]) = {}

\* The process has ended after the fourth loader raised; the three loaders
\* before it had written rows, and these are in the store.
Wit_C19_FourthLoaderFailed ==
    /\ la.pc = "exited"
    /\ la.status = "error"
    /\ la.k = 4
    /\ \A j \in 1..3 : committed[load_all[j]] = MaxLoaded /\ loaded[load_all[j]] = MaxLoaded
    /\ \A j \in 4..Len(load_all) : committed[load_all[j]] = 0

(***************************************************************************)
(* load_dataset_properties: the loader.                                    *)
(***************************************************************************)
\* The base URIs of the two services.
ebu == Str(<<"http://open.statswales.gov.wales/en-gb/">>)
wbu == Str(<<"http://agored.statscymru.llyw.cymru/cy-gb/">>)

\* The document fetch_uri(base, ("dataset", "$metadata")) returns.
Served(base) == IF base = ebu THEN "english" ELSE "welsh"

\* The four load_from calls at the end of load_dataset_properties: the
\* document each one reads and the language it is given.
load_from_calls ==
    <<[document |-> Served(ebu), lang |-> "en-gb"],
      [document |-> "extra",     lang |-> "en-gb"],
      [document |-> Served(ebu), lang |-> "cy-gb"],
      [document |-> "extra",     lang |-> "cy-gb"]>>

\* "if (dataset in [...])": the datasets known to mismatch.
KnownMismatch == {Str(<<"hous0701">>), Str(<<"hous0702">>), Str(<<"schs0255">>)}

\* The choice of QUERY for an entity set.
QueryFor(lang, dataset) ==
    IF lang = "en-gb" THEN "INSERT"
    ELSE IF dataset \in KnownMismatch THEN "IGNORE_ROW"
    ELSE "CHECK_ROW"

\* p.attrib["Name"].split("_"), the name given in tokens.
RECURSIVE SplitName(_)
SplitName(name) ==
    IF name = <<>> THEN <<>>
    ELSE IF Len(name) >= 2 /\ name[2] = "_"
    THEN <<name[1]>> \o SplitName(SubSeq(name, 3, Len(name)))
    ELSE <<name[1]>>

key_to_column_prefix(key) ==
    CASE key = "Data" -> "measure"
      [] key = "Percentage" -> "measure"
      [] key = "RowKey" -> "row_key"
      [] key = "PartitionKey" -> "partition_key"
      [] key = "Code" -> "item"
      [] key = "ItemName" -> "item_name"
      [] key = "SortOrder" -> "sort_order"
      [] key = "Hierarchy" -> "hierarchy"
      [] key = "ItemNotes" -> "item_notes"

\* A dictionary as a set of entries; an assignment replaces the entry of
\* its key.
Put(dict, key, value) == {e \in dict : e.key # key} \cup {[key |-> key, value |-> value]}

\* "for p in properties": the three dictionaries measure, dimensions and
\* alternatives after the properties of one entity type. A name of one
\* component is about the measure; otherwise the first component is the
\* dimension, and a second component AltCode<n> is alternative n. The
\* _ENG / _WEL suffix is not part of any key.
RECURSIVE Group(_, _)
Group(properties, sofar) ==
    IF properties = <<>> THEN sofar
    ELSE LET prop == Head(properties)
             name == SplitName(prop.name)
             next ==
               IF Len(name) = 1
               THEN [sofar EXCEPT !.measure =
                        Put(Put(@, <<key_to_column_prefix(name[1]), "_type">>, prop.type),
                            <<key_to_column_prefix(name[1]), "_nullable">>, prop.nullable)]
               ELSE IF name[2] = "AltCode1"
               THEN [sofar EXCEPT !.alternatives =
                        Put(Put(@, <<name[1], 1, "alternative_type">>, prop.type),
                            <<name[1], 1, "alternative_nullable">>, prop.nullable)]
               ELSE [sofar EXCEPT !.dimensions =
                        Put(Put(@, <<name[1], key_to_column_prefix(name[2]), "_type">>, prop.type),
                            <<name[1], key_to_column_prefix(name[2]), "_nullable">>, prop.nullable)]
         IN  Group(Tail(properties), next)

NoSignatures == [measure |-> {}, dimensions |-> {}, alternatives |-> {}]

\* "[(k, identity, d[k]) for k in sorted(d)]" for the column prefixes the
\* model's documents use.
MeasureMap(dataset, g) ==
    <<Col("dataset", "identity", dataset)>>
    \o [i \in 1..Cardinality({e \in g.measure : e.key[2] = "_nullable"}) |->
          Col("measure_nullable", "identity",
              (CHOOSE e \in g.measure : e.key[2] = "_nullable").value)]
    \o [i \in 1..Cardinality({e \in g.measure : e.key[2] = "_type"}) |->
          Col("measure_type", "identity",
              (CHOOSE e \in g.measure : e.key[2] = "_type").value)]

DimensionMap(dataset, dimension, g) ==
    <<Col("dataset", "identity", dataset), Col("dimension", "identity", Str(<<dimension>>))>>
    \o [i \in 1..Cardinality({e \in g.dimensions : e.key[1] = dimension /\ e.key[3] = "_nullable"}) |->
          Col("item_name_nullable", "identity",
              (CHOOSE e \in g.dimensions : e.key[1] = dimension /\ e.key[3] = "_nullable").value)]
    \o [i \in 1..Cardinality({e \in g.dimensions : e.key[1] = dimension /\ e.key[3] = "_type"}) |->
          Col("item_name_type", "identity",
              (CHOOSE e \in g.dimensions : e.key[1] = dimension /\ e.key[3] = "_type").value)]

AlternativeMap(dataset, dimension, g) ==
    <<Col("dataset", "identity", dataset), Col("dimension", "identity", Str(<<dimension>>)),
      Col("alternative_index", "identity", Integer(1)),
      Col("alternative_nullable", "identity",
          (CHOOSE e \in g.alternatives : e.key[1] = dimension /\ e.key[3] = "alternative_nullable").value),
      Col("alternative_type", "identity",
          (CHOOSE e \in g.alternatives : e.key[1] = dimension /\ e.key[3] = "alternative_type").value)>>

\* The dimension of the model's documents.
PropDimension == "Area"

\* The QUERY(...)(c, {}) calls for one entity set, in order: the measure,
\* then each dimension, then each alternative.
Statements(entity) ==
    LET g == Group(entity.properties, NoSignatures)
    IN  <<[table |-> "dataset_property_measure", the_map |-> MeasureMap(entity.dataset, g)]>>
        \o [i \in 1..Cardinality({e \in g.dimensions : e.key[3] = "_type"}) |->
              [table |-> "dataset_property_dimension",
               the_map |-> DimensionMap(entity.dataset, PropDimension, g)]]
        \o [i \in 1..Cardinality({e \in g.alternatives : e.key[3] = "alternative_type"}) |->
              [table |-> "dataset_property_dimension_alternative",
               the_map |-> AlternativeMap(entity.dataset, PropDimension, g)]]

PropColumns(table) ==
    CASE table = "dataset_property_measure" ->
            {"dataset", "measure_type", "measure_nullable"}
      [] table = "dataset_property_dimension" ->
            {"dataset", "dimension", "item_name_type", "item_name_nullable"}
      [] table = "dataset_property_dimension_alternative" ->
            {"dataset", "dimension", "alternative_index", "alternative_type",
             "alternative_nullable"}

PropKey(table) ==
    CASE table = "dataset_property_measure" -> {"dataset"}
      [] table = "dataset_property_dimension" -> {"dataset", "dimension"}
      [] table = "dataset_property_dimension_alternative" ->
            {"dataset", "dimension", "alternative_index"}

\* sqlite3.IntegrityError on a dataset_property_* table: NOT NULL, PRIMARY
\* KEY, and the FOREIGN KEY of an alternative to its dimension.  (The
\* foreign key to dataset_collection is taken to be satisfied.)
PropIntegrityError(table, db, row) ==
    \/ \E c \in PropColumns(table) : row[c] = NULL
    \/ \E r \in db[table] : \A c \in PropKey(table) : r[c] = row[c]
    \/ /\ table = "dataset_property_dimension_alternative"
       /\ ~\E r \in db["dataset_property_dimension"] :
              r["dataset"] = row["dataset"] /\ r["dimension"] = row["dimension"]

\* QUERY(table, the_map)(c, {}) for the QUERY chosen.
RunQuery(query, table, the_map, db) ==
    CASE query = "IGNORE_ROW" -> [db |-> db, result |-> "ok"]
      [] query = "CHECK_ROW" ->
            [db |-> db,
             result |-> CHECK_ROW(table, the_map, db, <<>>, make_autoincrement(0)).result]
      [] query = "INSERT" ->
            LET row == RowOf(PropColumns(table),
                             BindAll(the_map, <<>>, make_autoincrement(0)).bindings)
            IN  IF PropIntegrityError(table, db, row)
                THEN [db |-> db, result |-> "IntegrityError"]
                ELSE [db |-> [db EXCEPT ![table] = @ \cup {row}], result |-> "ok"]

\* The statements of an entity set one after the other, up to the first
\* one that raises.
RECURSIVE RunAll(_, _, _)
RunAll(query, statements, db) ==
    IF statements = <<>> THEN [db |-> db, result |-> "ok"]
    ELSE LET r == RunQuery(query, Head(statements).table, Head(statements).the_map, db)
         IN  IF r.result # "ok" THEN r
             ELSE RunAll(query, Tail(statements), r.db)

\* The documents the model lets the services serve.
EdmTypes == {Str(<<"Edm.String">>), Str(<<"Edm.Int64">>)}

Suffix(service) == IF service = "welsh" THEN "WEL" ELSE "ENG"

Property(name, type) == [name |-> name, type |-> type, nullable |-> Str(<<"true">>)]

PropertyLists(service) ==
    {<<Property(<<"Data">>, m)>> \o d \o a :
        m \in EdmTypes,
        d \in {<<>>} \cup {<<Property(<<PropDimension, "_", "ItemName", "_", Suffix(service)>>, t)>> :
                              t \in EdmTypes},
        a \in {<<>>, <<Property(<<PropDimension, "_", "AltCode1">>, Str(<<"Edm.String">>))>>}}

EntitySets(service) ==
    LET plain == {<<[dataset |-> D1, properties |-> ps]>> : ps \in PropertyLists(service)}
        known == {<<[dataset |-> Str(<<"hous0701">>),
                     properties |-> <<Property(<<"Data">>, Str(<<"Edm.String">>)),
                                      Property(<<PropDimension, "_", "ItemName", "_", Suffix(service)>>, t)>>]>> :
                     t \in EdmTypes}
    IN  {p \o k : p \in plain \cup {<<>>}, k \in known \cup {<<>>}}

Documents(service) ==
    {[content_type |-> ct, entity_sets |-> es] :
        ct \in {<<"application/xml">>, <<"text/html">>}, es \in EntitySets(service)}

ExtraDocuments ==
    {[content_type |-> <<"application/xml">>, entity_sets |-> es] :
        es \in {<<>>, <<[dataset |-> D2, properties |-> <<Property(<<"Data">>, Str(<<"Edm.Int64">>))>>]>>}}

\* load_all has run load_dataset_collections and calls
\* load_dataset_properties.
InitProps ==
    /\ docs \in [english : Documents("english"), welsh : Documents("welsh"),
                 extra : ExtraDocuments]
    /\ propRows = [t \in PropTables |-> {}]
    /\ lp = [LpIdle EXCEPT !.pc = "begin"]
    /\ LoadAllIdle
    /\ PagesIdle
    /\ TablesEmpty
    /\ RowIdle
    /\ DimIdle
    /\ FetchIdle
    /\ savepoints = <<>>
    /\ objects = 0..(NumSteps - 1)
    /\ meta = <<NumSteps>>
    /\ applied = NumSteps
    /\ MigIdle

\* "SAVEPOINT load_dataset_properties".
PropsBegin ==
    /\ lp.pc = "begin"
    /\ savepoints' = Savepoint(savepoints, "load_dataset_properties")
    /\ lp' = [lp EXCEPT !.pc = "load_from", !.call = 1]
    /\ UNCHANGED <<docs, propRows>>

\* The next load_from call, up to the loop over the entity sets: the
\* document is read and its mime-type checked.
PropsOpen ==
    /\ lp.pc = "load_from"
    /\ LET call == load_from_calls[lp.call]
           local == docs[call.document]
           content_type == parse_content_type(local.content_type)
       IN  IF content_type.error # "none"
           THEN lp' = [lp EXCEPT !.pc = "raised", !.error = content_type.error,
                                 !.read = Append(@, call.document)]
           ELSE IF content_type.mime_type # <<"application/xml">>
           THEN lp' = [lp EXCEPT !.pc = "raised", !.error = "AssertionError",
                                 !.read = Append(@, call.document)]
           ELSE lp' = [lp EXCEPT !.pc = "entity_sets", !.todo = local.entity_sets,
                                 !.read = Append(@, call.document)]
    /\ UNCHANGED <<savepoints, docs, propRows>>

\* One turn of "for e in entity_sets": the signatures of the dataset are
\* grouped and INSERTed, checked or ignored.
PropsEntitySet ==
    /\ lp.pc = "entity_sets"
    /\ lp.todo # <<>>
    /\ LET e == Head(lp.todo)
           query == QueryFor(load_from_calls[lp.call].lang, e.dataset)
           r == RunAll(query, Statements(e), propRows)
       IN  /\ propRows' = r.db
           /\ lp' = IF r.result = "ok" THEN [lp EXCEPT !.todo = Tail(@)]
                    ELSE [lp EXCEPT !.pc = "raised", !.error = r.result]
    /\ UNCHANGED <<savepoints, docs>>

\* load_from returns: on to the next call, or to the RELEASE.
PropsNextCall ==
    /\ lp.pc = "entity_sets"
    /\ lp.todo = <<>>
    /\ lp' = IF lp.call < Len(load_from_calls)
             THEN [lp EXCEPT !.pc = "load_from", !.call = @ + 1]
             ELSE [lp EXCEPT !.pc = "release"]
    /\ UNCHANGED <<savepoints, docs, propRows>>

\* "RELEASE load_dataset_properties".
PropsRelease ==
    /\ lp.pc = "release"
    /\ savepoints' = Release(savepoints, "load_dataset_properties")
    /\ lp' = [lp EXCEPT !.pc = "returned"]
    /\ UNCHANGED <<docs, propRows>>

NextProps ==
    \/ PropsBegin /\ UNCHANGED <<foreign_keys, varsMig, varsTab, varsRow, varsDim, varsFetch, varsPages, varsLoad>>
    \/ PropsOpen /\ UNCHANGED <<foreign_keys, varsMig, varsTab, varsRow, varsDim, varsFetch, varsPages, varsLoad>>
    \/ PropsEntitySet /\ UNCHANGED <<foreign_keys, varsMig, varsTab, varsRow, varsDim, varsFetch, varsPages, varsLoad>>
    \/ PropsNextCall /\ UNCHANGED <<foreign_keys, varsMig, varsTab, varsRow, varsDim, varsFetch, varsPages, varsLoad>>
    \/ PropsRelease /\ UNCHANGED <<foreign_keys, varsMig, varsTab, varsRow, varsDim, varsFetch, varsPages, varsLoad>>

SpecProps == InitProps /\ [][NextProps]_vars

\* The statements of the datasets of a document that are not known to
\* mismatch.
CheckedStatements(document) ==
    UNION {Range(Statements(document.entity_sets[i])) :
              i \in {j \in 1..Len(document.entity_sets) :
                        document.entity_sets[j].dataset \notin KnownMismatch}}

WelshCheckPassed(log, i) ==
    \E a \in log :
        /\ a.lang = "cy-gb"
        /\ a.kind = "CHECK_ROW"
        /\ a.table = "odata_dataset_dimension"
        /\ a.index = i
        /\ a.result = "ok"

\* C21 (frame effect): no step of the Welsh pass, from the new counters to
\* the RELEASE, changes odata_dataset_dimension; such a step removes no row
\* of odata_dataset_dimension_info and every row it adds there has lang
\* cy-gb and an index i whose CHECK_ROW against odata_dataset_dimension ran
\* before the step and passed.
Thm_C21_WelshPassOnlyAddsCheckedInfoRows ==
    [][ ld'.lang = "cy-gb" =>
          /\ dimTable' = dimTable
          /\ infoTable \subseteq infoTable'
          /\ \A r \in infoTable' \ infoTable :
                /\ r.lang = LangText("cy-gb")
                /\ WelshCheckPassed(assigned, r.dimension_index[2]) ]_vars

\* The Welsh pass has checked and inserted the rows of a second page and of
\* the extras file, and the load completed.
Wit_C21_WelshRowsOfSecondPageInserted ==
    /\ ld.pc = "done"
    /\ Len(seen["cy-gb"]) > PageSize
    /\ extras # <<>>
    /\ \A k \in 0..Len(PassRows("cy-gb")) - 1 :
          /\ WelshCheckPassed(assigned, k)
          /\ \E r \in infoTable : r.lang = LangText("cy-gb") /\ r.dimension_index = Integer(k)


(***************************************************************************)
(* fetch_uri: the cache index and the blobs.                               *)
(***************************************************************************)
\* The blob a cache index row names is in ugc/ under that name, with the
\* name the digest of its content.
HasBlob(row, ugc) ==
    \E f \in ugc : f.name = row["filename"] /\ f.name = hexdigest(f.content)

\* C22 (index before blob): the rename into ugc/ happens only when the
\* INSERT of the row that names the blob has succeeded in this call; at
\* every point of a fetch every committed row of spider_uri_cache names a
\* blob that is in ugc/; and after the process was killed at any point the
\* index holds no row without its blob, whatever is left in tmp/.
Thm_C22_CommittedRowsHaveBlobs ==
    /\ [](\A r \in durableRows : HasBlob(r, ugcFiles))
    /\ [](fx.pc = "killed" => \A r \in cacheRows : HasBlob(r, ugcFiles))
    /\ [][ugcFiles' # ugcFiles =>
            /\ fx.pc = "rename"
            /\ \E r \in cacheRows :
                  /\ r["uri"] = fx.uri
                  /\ r["timestamp"] = TextAffinity(Real(fx.now))
                  /\ r["filename"] = hexdigest(fx.response.body)
                  /\ ugcFiles' = WithFile(ugcFiles, r["filename"], fx.response.body)]_vars

\* The process was killed between the INSERT and the rename into ugc/,
\* after an earlier fetch had committed its row: the new blob is an orphan
\* in tmp/, the index has no row for its URI, and the committed row has its
\* blob.
Wit_C22_KilledBetweenInsertAndRename ==
    /\ fx.pc = "killed"
    /\ lastCall.at = "rename"
    /\ Exists(tmpFiles, hexdigest(lastCall.body))
    /\ ~Exists(ugcFiles, hexdigest(lastCall.body))
    /\ ~\E r \in cacheRows : r["uri"] = lastCall.uri
    /\ durableRows # {}
    /\ cacheRows = durableRows


\* C23 (no retry of other failures): an exception of http.get other than
\* the two timeouts is met by no call that is still running; the step on
\* which it is raised ends the call with that exception, the failing
\* request being the last one made and no sleep following it (one request
\* and one sleep per timeout before it, and none for the failure), and that
\* step changes no file of tmp/ or ugc/, no row of the cache index and no
\* savepoint, leaving the index without a row for the URI.
Thm_C23_OtherFailuresPropagateAtOnce ==
    /\ [](~fx.failed)
    /\ [](lastCall.failed =>
             /\ lastCall.outcome = "raised"
             /\ lastCall.error = "RequestException"
             /\ lastCall.at = "get"
             /\ lastCall.gets = lastCall.timeouts + 1
             /\ lastCall.slept = lastCall.timeouts)
    /\ [][(fx.pc = "get" /\ fx'.pc = "idle") =>
             /\ lastCall'.failed
             /\ lastCall'.uri = fx.uri
             /\ lastCall'.gets = fx.gets + 1
             /\ lastCall'.slept = Len(fx.slept)
             /\ UNCHANGED <<tmpFiles, ugcFiles, cacheRows, durableRows, savepoints>>
             /\ ~\E r \in cacheRows' : r["uri"] = fx.uri]_vars

\* The first request of a fetch failed with another exception, after an
\* earlier fetch had stored the other URI: one request, no sleep, nothing
\* in tmp/, one blob and one row, neither of them for this URI.
Wit_C23_FailedOnFirstAttempt ==
    /\ fx.pc = "idle"
    /\ lastCall.failed
    /\ lastCall.gets = 1
    /\ lastCall.slept = 0
    /\ tmpFiles = {}
    /\ Cardinality(ugcFiles) = 1
    /\ Cardinality(cacheRows) = 1
    /\ \A r \in cacheRows : r["uri"] # lastCall.uri


(***************************************************************************)
(* load_json_pages: pages that are not application/json.                   *)
(***************************************************************************)
\* The content type of page k of the feed is application/json: the text of
\* its header before the first ";".
IsJson(feed, k) == Head(Split(feed[k].content_type, ";")) = <<"application/json">>

\* C24 (mime-type check): no procedure is applied to an item of a page that
\* is not application/json and no page is fetched through the nextLink of
\* such a page; the step that opens such a page raises, applies nothing
\* and fetches nothing; and when the call has raised on opening a page,
\* the applications to all earlier pages stand, complete and in order, and
\* the loader's savepoint is still open, neither rolled back nor released.
Thm_C24_NonJsonPageRaisesBeforeApplying ==
    /\ [](pj.pc # "idle" =>
            /\ \A i \in 1..Len(applications) : IsJson(pj.feed, applications[i].page)
            /\ \A i \in 1..Len(pj.fetched) : IsJson(pj.feed, pj.fetched[i] - 1)
            /\ pj.pc \in {"procs", "returned"} => IsJson(pj.feed, pj.at)
            /\ (pj.pc = "raised" /\ ~IsJson(pj.feed, pj.at)) =>
                  /\ pj.error \in {"AssertionError", "IndexError"}
                  /\ applications = AllPages(pj.feed, pj.at - 1, pj.insert_procs)
                  /\ pj.fetched = Interval(2, pj.at + 1)
                  /\ savepoints = <<"load_odata_catalogue">>)
    /\ [][(pj.pc = "open" /\ ~IsJson(pj.feed, pj.at)) =>
            /\ pj'.pc = "raised"
            /\ applications' = applications
            /\ pj'.fetched = pj.fetched
            /\ savepoints' = savepoints]_vars

\* The second page of a feed is text/html: the call raised AssertionError
\* on opening it, after applying two procedures to the two items of the
\* first page, and made no application and no fetch after that.
Wit_C24_SecondPageIsHtml ==
    /\ pj.pc = "raised"
    /\ pj.error = "AssertionError"
    /\ pj.at = 2
    /\ pj.feed[2].content_type = <<"text/html">>
    /\ Len(pj.feed[2].value) > 0
    /\ pj.insert_procs = 2
    /\ Len(applications) = 4
    /\ applications = AllPages(pj.feed, 1, 2)
    /\ pj.fetched = <<2>>


(***************************************************************************)
(* upgrade_database: a step that raises.                                   *)
(***************************************************************************)
\* C26 (version written last): a call of upgrade_database writes the
\* schema_version row only on the step after its last pending schema
\* statement, every pending statement having executed, and writes
\* len(db_schema); the step on which a schema statement raises ends the
\* call without changing the row or the stack of savepoints, so SAVEPOINT
\* upgrade_database stays open on top of it, neither released nor rolled
\* back, and the objects the earlier statements created stay.
Thm_C26_VersionRecordedAfterAllSteps ==
    /\ [][(upg.pc = "steps" /\ meta' # meta) =>
             /\ upg.todo = <<>>
             /\ upg.executed = Interval(upg.old_version, NumSteps)
             /\ meta' = <<NumSteps>>
             /\ upg'.pc = "returned"]_vars
    /\ [][(upg.pc = "steps" /\ upg'.pc = "raised") =>
             /\ meta' = meta
             /\ meta' = before.meta
             /\ savepoints' = savepoints
             /\ savepoints' # <<>>
             /\ savepoints'[Len(savepoints')] = "upgrade_database"
             /\ objects' = objects]_vars

\* A schema statement raised in the middle of an upgrade from an older
\* version: some statements have executed and some are pending, the
\* schema_version row is the one the call found, and the savepoint is open.
Wit_C26_RaisedMidUpgrade ==
    /\ upg.pc = "raised"
    /\ before.applied > 0
    /\ upg.executed # <<>>
    /\ upg.todo # <<>>
    /\ meta = before.meta
    /\ meta = <<before.applied>>
    /\ objects # before.objects
    /\ savepoints = Savepoint(before.savepoints, "upgrade_database")


(***************************************************************************)
(* A session: the calls the header of spider.py shows, on one connection   *)
(* and across restarts: initialise(), purge_database(), loaders with       *)
(* their fetch_uri calls, fetch_uri by itself.                             *)
(***************************************************************************)
\* The loaders the session calls: the first of load_all and the one of the
\* dataset dimensions.
SessionLoaders == {1, 7}

\* What the service answers in a session: the same document every time,
\* with every header the INSERT reads.
SessionResponses ==
    {r \in Responses : r.status = 200 /\ r.body = <<"a">> /\ r.headers = StoredHeaders}

\* The histories of the migration manager are of its last call only: a call
\* of something else ends them.
ForgetMig ==
    /\ before' = NoEntry
    /\ purged' = NoPurge
    /\ UNCHANGED <<objects, meta, applied>>

\* initialise() has connected to a store at the current schema and is
\* about to call upgrade_database().
InitSession ==
    /\ FetchIdle
    /\ savepoints = <<>>
    /\ objects = 0..(NumSteps - 1)
    /\ meta = <<NumSteps>>
    /\ applied = NumSteps
    /\ MigIdle
    /\ TablesEmpty
    /\ RowIdle
    /\ PagesIdle
    /\ PropsIdle
    /\ DimIdle
    /\ la = [LaIdle EXCEPT !.pc = "initialise"]
    /\ loaded = [n \in LoaderNames |-> 0]
    /\ committed = [n \in LoaderNames |-> 0]
    /\ calls = <<>>

\* No call is running: initialise() has returned or raised, and no loader
\* and no fetch_uri is between its first and its last statement.
AtPrompt ==
    /\ fx.pc = "idle"
    /\ \/ la.pc \in {"idle", "raised"}
       \/ la.pc = "initialise" /\ upg.pc \in {"returned", "raised"}

\* fetch_uri can be called: by the loader that is running, or by itself.
CanFetch == la.pc = "body" \/ AtPrompt

\* An exception that leaves fetch_uri inside a loader is on its way up
\* through the loader, which has no try.
Propagate ==
    la' = IF la.pc = "body" /\ fx.pc # "idle" /\ fx'.pc = "idle" /\ lastCall'.outcome = "raised"
          THEN [la EXCEPT !.pc = "raising", !.error = lastCall'.error]
          ELSE la

\* The session remembers that purge_database refused.
PurgeNoted ==
    la' = [la EXCEPT !.status = IF purged'.outcome = "raised" THEN "purge refused" ELSE @]

\* initialise() calls upgrade_database().
SessionUpgrade ==
    /\ la.pc = "initialise"
    /\ upg.pc = "idle"
    /\ UpgradeBegin

\* A loader is called: "SAVEPOINT <loader>".
SessionLoaderBegin ==
    /\ AtPrompt
    /\ Len(savepoints) < MaxDepth
    /\ \E k \in SessionLoaders :
          /\ savepoints' = Savepoint(savepoints, load_all[k])
          /\ la' = [la EXCEPT !.pc = "body", !.k = k,
                              !.status = IF @ = "purge refused"
                                         THEN "purge refused, loader called" ELSE @]
    /\ upg' = UpgIdle
    /\ ForgetMig
    /\ lastCall' = NoFetch
    /\ UNCHANGED <<cacheRows, durableRows>>

\* The savepoints if the loader rolled back to its savepoint and released
\* it when an exception passes through.
AfterLoaderRaise_rolledBack(sp, name) == Release(sp, name)

\* The savepoints after an exception has left a loader: the loaders have no
\* try, no ROLLBACK and no RELEASE on that path.
AfterLoaderRaise(sp, name) == sp

\* An exception leaves the loader: the one fetch_uri raised, or one of a
\* converter, INSERT or CHECK_ROW.
SessionLoaderRaises ==
    /\ fx.pc = "idle"
    /\ la.pc \in {"body", "raising"}
    /\ savepoints' = AfterLoaderRaise(savepoints, Loader)
    /\ la' = [la EXCEPT !.pc = "raised",
                        !.error = IF la.pc = "raising" THEN la.error ELSE "Exception"]
    /\ UNCHANGED <<cacheRows, durableRows>>

\* "RELEASE <loader>": the loader returns.
SessionLoaderRelease ==
    /\ fx.pc = "idle"
    /\ la.pc = "body"
    /\ savepoints' = Release(savepoints, Loader)
    /\ durableRows' = Durable(savepoints', cacheRows, durableRows)
    /\ la' = [la EXCEPT !.pc = "idle"]
    /\ UNCHANGED cacheRows

\* The rows a new connection would find if the store kept what an ended
\* process had pending.
Connect_keepsPending(rows, durable) == rows

\* sqlite3.connect: the rows a new connection finds are those committed;
\* what the connection of the process that ended had pending is gone.
Connect(rows, durable) == durable

\* The interpreter exits, with or without a traceback, and a later run
\* calls initialise(): a new connection, PRAGMA foreign_keys = ON, and
\* upgrade_database() next. The files of tmp/ and ugc/ are as they were.
SessionRestart ==
    /\ AtPrompt
    /\ savepoints' = <<>>
    /\ foreign_keys' = TRUE
    /\ cacheRows' = Connect(cacheRows, durableRows)
    /\ la' = [LaIdle EXCEPT !.pc = "initialise"]
    /\ upg' = UpgIdle
    /\ ForgetMig
    /\ UNCHANGED durableRows

NextSession ==
    \/ SessionUpgrade /\ UNCHANGED <<foreign_keys, la, varsFetch, varsTab, varsRow, varsDim, varsPages, varsProps, loaded, committed, calls>>
    \/ UpgradeStep /\ UNCHANGED <<foreign_keys, la, varsFetch, varsTab, varsRow, varsDim, varsPages, varsProps, loaded, committed, calls>>
    \/ UpgradeRecord /\ UNCHANGED <<foreign_keys, la, varsFetch, varsTab, varsRow, varsDim, varsPages, varsProps, loaded, committed, calls>>
    \/ (AtPrompt /\ purge_database /\ PurgeNoted) /\ UNCHANGED <<varsRow, varsDim, varsPages, varsProps, loaded, committed, calls>>
    \/ (CanFetch /\ FetchHit) /\ Propagate /\ ForgetMig /\ UNCHANGED <<foreign_keys, upg, varsTab, varsRow, varsDim, varsPages, varsProps, loaded, committed, calls>>
    \/ (CanFetch /\ FetchMiss) /\ Propagate /\ ForgetMig /\ UNCHANGED <<foreign_keys, upg, varsTab, varsRow, varsDim, varsPages, varsProps, loaded, committed, calls>>
    \/ HttpError /\ Propagate /\ UNCHANGED <<foreign_keys, varsMig, varsTab, varsRow, varsDim, varsPages, varsProps, loaded, committed, calls>>
    \/ (HttpResponse /\ fx'.response \in SessionResponses) /\ Propagate /\ UNCHANGED <<foreign_keys, varsMig, varsTab, varsRow, varsDim, varsPages, varsProps, loaded, committed, calls>>
    \/ FetchOpenTemp /\ Propagate /\ UNCHANGED <<foreign_keys, varsMig, varsTab, varsRow, varsDim, varsPages, varsProps, loaded, committed, calls>>
    \/ FetchWriteChunk /\ Propagate /\ UNCHANGED <<foreign_keys, varsMig, varsTab, varsRow, varsDim, varsPages, varsProps, loaded, committed, calls>>
    \/ FetchRenameTmp /\ Propagate /\ UNCHANGED <<foreign_keys, varsMig, varsTab, varsRow, varsDim, varsPages, varsProps, loaded, committed, calls>>
    \/ FetchInsert /\ Propagate /\ UNCHANGED <<foreign_keys, varsMig, varsTab, varsRow, varsDim, varsPages, varsProps, loaded, committed, calls>>
    \/ FetchRenameUgc /\ Propagate /\ UNCHANGED <<foreign_keys, varsMig, varsTab, varsRow, varsDim, varsPages, varsProps, loaded, committed, calls>>
    \/ FetchRelease /\ Propagate /\ UNCHANGED <<foreign_keys, varsMig, varsTab, varsRow, varsDim, varsPages, varsProps, loaded, committed, calls>>
    \/ FetchReturn /\ Propagate /\ UNCHANGED <<foreign_keys, varsMig, varsTab, varsRow, varsDim, varsPages, varsProps, loaded, committed, calls>>
    \/ SessionLoaderBegin /\ UNCHANGED <<foreign_keys, tmpFiles, ugcFiles, clock, fx, varsTab, varsRow, varsDim, varsPages, varsProps, loaded, committed, calls>>
    \/ SessionLoaderRaises /\ UNCHANGED <<foreign_keys, varsMig, tmpFiles, ugcFiles, clock, fx, lastCall, varsTab, varsRow, varsDim, varsPages, varsProps, loaded, committed, calls>>
    \/ SessionLoaderRelease /\ UNCHANGED <<foreign_keys, varsMig, tmpFiles, ugcFiles, clock, fx, lastCall, varsTab, varsRow, varsDim, varsPages, varsProps, loaded, committed, calls>>
    \/ SessionRestart /\ UNCHANGED <<tmpFiles, ugcFiles, clock, fx, lastCall, varsTab, varsRow, varsDim, varsPages, varsProps, loaded, committed, calls>>

SpecSession == InitSession /\ [][NextSession]_vars


\* The cache index has no row for the URI.
NotCached(rows, uri) == ~\E r \in rows : r["uri"] = uri

\* C25 (one row per URI, growing): in every state of a session the cache
\* index holds at most one row per URI; the only steps that add to it are
\* INSERTs of fetch_uri calls that found no row for their URI, one row
\* each; the committed rows never shrink; and no step of fetch_uri,
\* upgrade_database, purge_database or a loader removes or changes a row
\* the connection sees: the rows leave only with the connection, at a
\* restart, and then only those that were never committed.
Thm_C25_OneRowPerUriOnlyGrowing ==
    /\ [](\A r, q \in cacheRows : r["uri"] = q["uri"] => r = q)
    /\ [][durableRows \subseteq durableRows']_vars
    /\ [][\/ cacheRows \subseteq cacheRows'
          \/ /\ AtPrompt
             /\ savepoints' = <<>>
             /\ la'.pc = "initialise"
             /\ cacheRows' = durableRows]_vars
    /\ [][(cacheRows' \ cacheRows) # {} =>
            /\ fx.pc = "insert"
            /\ NotCached(cacheRows, fx.uri)
            /\ \E r \in cacheRows' : r["uri"] = fx.uri /\ cacheRows' = cacheRows \cup {r}]_vars

\* Both URIs were fetched and committed; then came a restart, a purge and
\* the upgrade from the purged store, which has returned: the index holds
\* the two rows the purge found, one per URI.
Wit_C25_TwoRowsSurvivePurgeAndUpgrade ==
    /\ upg.pc = "returned"
    /\ upg.executed # <<>>
    /\ before.purge.outcome = "returned"
    /\ Cardinality(before.purge.cacheRows) = 2
    /\ cacheRows = before.purge.cacheRows
    /\ durableRows = cacheRows
    /\ \A u \in URIs : Cardinality({r \in cacheRows : r["uri"] = u}) = 1

\* C27 (a loader that raised): the step on which an exception leaves a
\* loader changes no savepoint, so the loader's own savepoint stays open;
\* from then on, until the connection is gone, the connection is inside a
\* transaction and nothing is committed; a purge_database call then
\* refuses and changes nothing; and the RELEASE of a loader called then
\* drops one savepoint, leaves the connection inside the transaction and
\* commits nothing.
Thm_C27_RaisedLoaderLeavesTransactionOpen ==
    /\ [][(la.pc \in {"body", "raising"} /\ la'.pc = "raised") =>
            /\ savepoints' = savepoints
            /\ \E i \in 1..Len(savepoints') : savepoints'[i] = load_all[la.k]]_vars
    /\ [](la.error # "none" => in_transaction(savepoints))
    /\ [][(la.error # "none" /\ la'.error # "none") => durableRows' = durableRows]_vars
    /\ [][(la.error # "none" /\ purged' # purged /\ purged'.outcome # "none") =>
            /\ purged'.outcome = "raised"
            /\ UNCHANGED <<objects, meta, savepoints, foreign_keys, cacheRows, durableRows>>]_vars
    /\ [][(la.error # "none" /\ la.pc = "body" /\ la'.pc = "idle") =>
            /\ Len(savepoints') = Len(savepoints) - 1
            /\ in_transaction(savepoints')
            /\ durableRows' = durableRows]_vars

\* A loader raised; purge_database was called and refused; a loader was
\* called after that, fetched a URI over the network and returned: the row
\* is in the index as the connection sees it and not in the committed one,
\* and the savepoint of the loader that raised is the one still open.
Wit_C27_LoaderAfterRaiseCommitsNothing ==
    /\ la.pc = "idle"
    /\ la.error # "none"
    /\ la.status = "purge refused, loader called"
    /\ Len(savepoints) = 1
    /\ lastCall.outcome = "returned"
    /\ ~lastCall.hit
    /\ lastCall.loader # 0
    /\ \E r \in cacheRows \ durableRows : r["uri"] = lastCall.uri
    /\ durableRows = {}

\* C28 (cache rows of a failed loader): the committed cache index changes
\* only on a step that releases the outermost savepoint, and then becomes
\* what the connection sees; outside a transaction nothing is pending;
\* while a loader is running or has raised the connection is inside a
\* transaction; the rows that leave the index at a restart are the pending
\* ones, their blobs stay in ugc/ and the index the next run finds has no
\* row for their URIs; and a fetch_uri call for a URI without a row goes
\* to the network.
Thm_C28_PendingCacheRowsLostOnExit ==
    /\ [][durableRows' # durableRows =>
            /\ in_transaction(savepoints)
            /\ savepoints' = <<>>
            /\ durableRows' = cacheRows
            /\ fx.pc = "release" \/ la.pc = "body"]_vars
    /\ [](savepoints = <<>> => cacheRows = durableRows)
    /\ [](la.pc \in {"body", "raising", "raised"} => in_transaction(savepoints))
    /\ [][~(cacheRows \subseteq cacheRows') =>
            /\ cacheRows' = durableRows
            /\ ugcFiles' = ugcFiles
            /\ \A r \in cacheRows \ cacheRows' :
                  /\ HasBlob(r, ugcFiles')
                  /\ NotCached(cacheRows', r["uri"])]_vars
    /\ [][(fx.pc = "idle" /\ fx'.pc # "idle") =>
            /\ fx'.pc = "get"
            /\ NotCached(cacheRows, fx'.uri)]_vars

\* A URI was fetched over the network inside a loader; the loader did not
\* reach a RELEASE that commits, the process ended, and the next call for
\* the same URI, in the next run, went to the network again and stored the
\* same blob: one file in ugc/, two GETs.
Wit_C28_FetchedAgainAfterFailedLoader ==
    /\ fx.pc = "idle"
    /\ lastCall.again
    /\ lastCall.loader_before # 0
    /\ lastCall.gets_before = 1
    /\ ~lastCall.hit
    /\ lastCall.gets = 1
    /\ lastCall.outcome = "returned"
    /\ lastCall.entry["filename"] = lastCall.entry_before["filename"]
    /\ Cardinality(ugcFiles) = 1


\* fetch_uri: the HTTP status of the response.

\* C29 (the cache does not look at the status): whether the INSERT of a
\* response succeeds depends on its headers and never on its status; when
\* it succeeds the row carries the status the server sent, whatever it is,
\* and the rename puts the body under its digest in ugc/; a call for a URI
\* that has a row, whatever its status, never goes to the network: it ends
\* at once as a hit without a GET, returns the columns of that row and
\* leaves the index as it is.
Thm_C29_CacheIgnoresStatus ==
    /\ [][(fx.pc = "insert" /\ fx'.pc # "killed") =>
            /\ fx'.pc = "rename" <=> fx.response.headers = StoredHeaders
            /\ fx'.pc = "rename" =>
                  \E r \in cacheRows' \ cacheRows :
                     /\ r.uri = fx.uri
                     /\ r.status = Integer(fx.response.status)
                     /\ r.filename = hexdigest(fx.response.body)]_vars
    /\ [][(fx.pc = "rename" /\ fx'.pc = "release") =>
            /\ Exists(ugcFiles', hexdigest(fx.response.body))
            /\ ContentOf(ugcFiles', hexdigest(fx.response.body)) = fx.response.body]_vars
    /\ [][(fx.pc = "idle" /\ fx'.pc = "get") =>
            ~\E r \in cacheRows : r.uri = fx'.uri]_vars
    /\ [][(fx.pc = "idle" /\ fx'.pc = "idle" /\ lastCall' # lastCall) =>
            /\ lastCall'.hit
            /\ lastCall'.gets = 0
            /\ lastCall'.outcome = "returned"
            /\ \E r \in cacheRows :
                  /\ r.uri = lastCall'.uri
                  /\ lastCall'.entry = [c \in EntryColumns |-> r[c]]
            /\ cacheRows' = cacheRows]_vars

\* The server answered 404; the call stored the response and returned, and
\* the next call for the URI was a hit that made no GET and returned the
\* row with status 404, whose blob is in ugc/.
Wit_C29_NotFoundServedFromCache ==
    /\ lastCall.again
    /\ lastCall.gets_before = 1
    /\ lastCall.hit
    /\ lastCall.gets = 0
    /\ lastCall.outcome = "returned"
    /\ lastCall.entry # NoRow
    /\ lastCall.entry["status"] = Integer(404)
    /\ Exists(ugcFiles, lastCall.entry["filename"])


\* fetch_uri: the staging file tmp/temp-<pid>.

\* The staging file is there and no call is writing it.
StaleTemp == Exists(tmpFiles, TempName) /\ fx.pc # "stream"

\* C30 (one staging name, created exclusively): a staging file is left
\* behind only by a call that stops while writing the body; from then on it
\* stays as it is, for good; every call of the process that reaches the
\* creation of its staging file, which is after its GET was answered,
\* raises FileExistsError there and leaves the files and the index alone;
\* no row is added to the index any more, and the only calls that return
\* are cache hits.
Thm_C30_StaleStagingFileBlocksFetches ==
    /\ [][(~StaleTemp /\ StaleTemp') =>
            /\ fx.pc = "stream"
            /\ fx.written < Len(fx.response.body)
               \/ fx'.pc = "killed"
            /\ tmpFiles' = tmpFiles]_vars
    /\ [][StaleTemp =>
            /\ StaleTemp'
            /\ tmpFiles' = tmpFiles
            /\ ugcFiles' = ugcFiles
            /\ cacheRows' \subseteq cacheRows]_vars
    /\ [][(StaleTemp /\ fx.pc = "open" /\ fx'.pc # "killed") =>
            /\ fx'.pc = "idle"
            /\ lastCall'.outcome = "raised"
            /\ lastCall'.error = "FileExistsError"
            /\ lastCall'.gets >= 1
            /\ lastCall'.at = "open"
            /\ UNCHANGED <<cacheRows, durableRows, savepoints>>]_vars
    /\ [][(StaleTemp /\ fx.pc # "idle" /\ fx'.pc # "killed") =>
            fx'.pc \in {"idle", "get", "open"}]_vars
    /\ []((StaleTemp /\ lastCall.outcome = "returned") => lastCall.hit)

\* A call stopped after writing part of the body; a later call of the
\* process found its URI not cached, had its GET answered and raised
\* FileExistsError: the staging file still holds what the first call wrote,
\* and the index has no row for the URI.
Wit_C30_LaterFetchFailsAtCreation ==
    /\ fx.pc = "idle"
    /\ lastCall.outcome = "raised"
    /\ lastCall.error = "FileExistsError"
    /\ lastCall.gets >= 1
    /\ Exists(tmpFiles, TempName)
    /\ ContentOf(tmpFiles, TempName) = <<"a">>
    /\ ~\E r \in cacheRows : r.uri = lastCall.uri

=============================================================================
